---- MODULE Spec2Model ----
(***************************************************************************)
(* Model of raster_tools' focal engine (raster_tools/focal.py): the        *)
(* null-skipping reducers, the tile kernels, the footprint builder and the *)
(* focal / correlate / convolve entry points on Raster objects.            *)
(*                                                                         *)
(* Numbers.  A cell value is a reduced fraction <<n, d>> with d > 0; the   *)
(* floating NaN is <<0, 0>> (0/0).  A square root that need not be         *)
(* rational is kept symbolically as <<n, d, 2>> = sqrt(n/d).  An integer   *)
(* array holds only values <<n, 1>>.                                       *)
(* Arrays.  A 1-D array is a sequence; a 2-D array is a function           *)
(* [0..rows-1 -> [0..cols-1 -> value]], indexed as in the source.          *)
(***************************************************************************)
EXTENDS Integers, Sequences, FiniteSets, TLC

VARIABLES
    op,        \* the call that produced `out`: "init" before any call
    raster,    \* the input Raster: [data, mask, dtype, nv]
    castNaN,   \* what this build's float->int cast makes of NaN
    sample,    \* the 1-D array handed to a reducer
    stat,      \* focal statistic / reducer name of the call
    window,    \* get_focal_window arguments of the call
    kernel,    \* correlate / convolve kernel of the call
    mode,      \* edge mode of the call
    cval,      \* fill value of the call
    out,       \* the call's result: [err, val]
    scheduled, \* bands whose tile computation the call has scheduled
    chunks,    \* the chunking of a band: [rows, cols], sequences of sizes
    pending,   \* the tiles, or the cells of one tile, not yet processed
    writes,    \* how often each output cell has been written
    tile,      \* the padded tile a running chunk function works on
    locals,    \* the accumulator v of every parallel iteration under way
    calls,     \* the number of calls made so far in a chain of calls
    heap       \* the array objects Raster objects refer to, by reference

vars == <<op, raster, castNaN, sample, stat, window, kernel, mode, cval, out,
          scheduled, chunks, pending, writes, tile, locals, calls, heap>>

\* the variables of a call whose tile scheduling is not followed
tiling == <<chunks, pending, writes, tile, locals>>

\* the variables of a call that is not followed as a step on Raster objects
objects == <<calls, heap>>

-----------------------------------------------------------------------------
(* Bounds of the model *)

\* longest sample handed to a reducer in SpecAgg
MaxSampleLen == 4
\* sample values range over -1 .. MaxVal (and NaN)
MaxVal == 2
\* shape of a raster band
GridRows == 1
GridCols == 2
\* radii, widths and heights of a footprint range over 1 .. MaxWin
MaxWin == 2

-----------------------------------------------------------------------------
(* Floating-point and integer scalars *)

NaN == <<0, 0>>

IsNaN(v) == v[2] = 0

Abs(n) == IF n < 0 THEN -n ELSE n

RECURSIVE Gcd(_, _)
Gcd(a, b) == IF b = 0 THEN a ELSE Gcd(b, a % b)

\* the fraction n/d in lowest terms; x/0 arises in the reducers only as 0/0
Frac(n, d) ==
    IF d = 0 THEN NaN
    ELSE LET g == Gcd(Abs(n), Abs(d))
             s == IF d < 0 THEN -1 ELSE 1
         IN  <<(s * n) \div g, (s * d) \div g>>

Num(n) == <<n, 1>>

FAdd(a, b) ==
    IF IsNaN(a) \/ IsNaN(b) THEN NaN
    ELSE Frac(a[1] * b[2] + b[1] * a[2], a[2] * b[2])

FSub(a, b) ==
    IF IsNaN(a) \/ IsNaN(b) THEN NaN
    ELSE Frac(a[1] * b[2] - b[1] * a[2], a[2] * b[2])

FMul(a, b) ==
    IF IsNaN(a) \/ IsNaN(b) THEN NaN
    ELSE Frac(a[1] * b[1], a[2] * b[2])

FDiv(a, b) ==
    IF IsNaN(a) \/ IsNaN(b) THEN NaN
    ELSE Frac(a[1] * b[2], a[2] * b[1])

\* a < b on non-NaN values
FLess(a, b) == a[1] * b[2] < b[1] * a[2]

\* np.sqrt, kept symbolic: sqrt(n/d) is <<n, d, 2>>; sqrt(NaN) is NaN
FSqrt(v) == <<v[1], v[2], 2>>

\* 1000 * ln(k) for k = 1 .. 25, the fixed-point table standing for np.log
LnMilli ==
    <<0, 693, 1099, 1386, 1609, 1792, 1946, 2079, 2197, 2303, 2398, 2485,
      2565, 2639, 2708, 2773, 2833, 2890, 2944, 2996, 3045, 3091, 3135,
      3178, 3219>>

\* np.log(c / n) for counts 1 <= c <= n
FLogRatio(c, n) == Frac(LnMilli[c] - LnMilli[n], 1000)

\* largest k with k*k <= n/d
ISqrtFloor(n, d) ==
    CHOOSE k \in 0 .. (n \div d) + 1 :
        k * k * d <= n /\ (k + 1) * (k + 1) * d > n

\* C cast of a float to an integer dtype: truncation toward zero; the cast
\* of NaN is undefined and yields whatever the build produces (g)
CastToInt(v, g) ==
    IF IsNaN(v) THEN Num(g)
    ELSE IF Len(v) = 3 THEN Num(ISqrtFloor(v[1], v[2]))
    ELSE IF v[1] >= 0 THEN Num(v[1] \div v[2])
    ELSE Num(-((-v[1]) \div v[2]))

\* storing a scalar into an array of the given dtype
CastTo(dtype, v, g) == IF dtype = "int" THEN CastToInt(v, g) ELSE v

-----------------------------------------------------------------------------
(* 1-D helpers *)

Range(s) == {s[i] : i \in 1 .. Len(s)}

NonNaN(x) == SelectSeq(x, LAMBDA v : ~IsNaN(v))

RECURSIVE SumSeq(_)
SumSeq(s) == IF s = <<>> THEN Num(0) ELSE FAdd(Head(s), SumSeq(Tail(s)))

CountOf(v, s) == Cardinality({i \in 1 .. Len(s) : s[i] = v})

RECURSIVE InsertSorted(_, _)
InsertSorted(v, s) ==
    IF s = <<>> THEN <<v>>
    ELSE IF FLess(Head(s), v) THEN <<Head(s)>> \o InsertSorted(v, Tail(s))
    ELSE <<v>> \o s

\* ndarray.sort(): ascending
RECURSIVE SortAsc(_)
SortAsc(s) == IF s = <<>> THEN <<>> ELSE InsertSorted(Head(s), SortAsc(Tail(s)))

ArgMaxLast(s) ==
    CHOOSE i \in 1 .. Len(s) :
        /\ \A j \in 1 .. Len(s) : s[j] <= s[i]
        /\ \A j \in (i + 1) .. Len(s) : s[j] < s[i]

\* np.argmax: the first index holding the maximum
ArgMax(s) ==
    CHOOSE i \in 1 .. Len(s) :
        /\ \A j \in 1 .. Len(s) : s[j] <= s[i]
        /\ \A j \in 1 .. (i - 1) : s[j] < s[i]

-----------------------------------------------------------------------------
(* ReducerLibrary: the _agg_nan_* functions *)

\* width of the uint16 count array of _agg_nan_mode
CntMod == 65536

_agg_nan_min(x) ==
    LET v == NonNaN(x)
    IN  IF v = <<>> THEN NaN
        ELSE CHOOSE m \in Range(v) : \A o \in Range(v) : ~FLess(o, m)

_agg_nan_max(x) ==
    LET v == NonNaN(x)
    IN  IF v = <<>> THEN NaN
        ELSE CHOOSE m \in Range(v) : \A o \in Range(v) : ~FLess(m, o)

\* np.nanmean: sum of the non-NaN values over their count (0/0 when none)
_agg_nan_mean(x) ==
    LET v == NonNaN(x) IN FDiv(SumSeq(v), Num(Len(v)))

_agg_nan_median(x) ==
    LET v == SortAsc(NonNaN(x))
        n == Len(v)
    IN  IF n = 0 THEN NaN
        ELSE IF n % 2 = 1 THEN v[(n + 1) \div 2]
        ELSE FDiv(FAdd(v[n \div 2], v[(n \div 2) + 1]), Num(2))

\* np.nansum: NaN counts as zero, so an all-NaN array sums to 0
_agg_nan_sum(x) == SumSeq(NonNaN(x))

NanVarDdof1(x) ==
    LET v == NonNaN(x)
        m == _agg_nan_mean(x)
        dev == [i \in 1 .. Len(v) |-> FMul(FSub(v[i], m), FSub(v[i], m))]
    IN  FDiv(SumSeq(dev), Num(Len(v) - 1))

\* np.nanvar: mean of the squared deviations from the mean (ddof = 0)
_agg_nan_var(x) ==
    LET v == NonNaN(x)
        m == _agg_nan_mean(x)
        dev == [i \in 1 .. Len(v) |-> FMul(FSub(v[i], m), FSub(v[i], m))]
    IN  FDiv(SumSeq(dev), Num(Len(v)))

\* np.nanstd: square root of np.nanvar
_agg_nan_std(x) == FSqrt(_agg_nan_var(x))

_agg_nan_unique(x) ==
    LET s == Range(NonNaN(x))
    IN  IF Cardinality(s) # 0 THEN Num(Cardinality(s)) ELSE NaN

ModeLastMax(x) ==
    LET vals == SortAsc(NonNaN(x))
        cnts == [i \in 1 .. Len(vals) |-> CountOf(vals[i], vals) % CntMod]
    IN  IF Len(vals) = 0 THEN NaN ELSE vals[ArgMaxLast(cnts)]

_agg_nan_mode(x) ==
    LET vals == SortAsc(NonNaN(x))
        cnts == [i \in 1 .. Len(vals) |-> CountOf(vals[i], vals) % CntMod]
    IN  IF Len(vals) = 0 THEN NaN ELSE vals[ArgMax(cnts)]

\* _agg_nan_mode on an array given by its runs: x is a sequence of runs
\* [v, n], each standing for n consecutive slots that hold v.  c is the dict
\* of exact occurrence counts, keys the distinct values of the sorted vals,
\* and cnts the uint16 array the counts are stored in and argmax reads
_agg_nan_mode_runs(x) ==
    LET vs == {x[i].v : i \in {k \in 1 .. Len(x) : ~IsNaN(x[k].v) /\ x[k].n > 0}}
        c == [v \in vs |->
                SumSeq([i \in 1 .. Len(x) |->
                          IF x[i].v = v THEN Num(x[i].n) ELSE Num(0)])[1]]
        keys == SortAsc(CHOOSE s \in [1 .. Cardinality(vs) -> vs] : Range(s) = vs)
        cnts == [i \in 1 .. Len(keys) |-> c[keys[i]] % CntMod]
    IN  IF vs = {} THEN NaN ELSE keys[ArgMax(cnts)]

\* the dict c of value -> count, as the sequence of its counts
CountsOf(x) ==
    LET v == NonNaN(x)
        keys == SortAsc(v)
        first == {i \in 1 .. Len(keys) : \A j \in 1 .. (i - 1) : keys[j] # keys[i]}
    IN  [k \in first |-> CountOf(keys[k], v)]

RECURSIVE SumOver(_, _)
SumOver(f, S) ==
    IF S = {} THEN Num(0)
    ELSE LET k == CHOOSE e \in S : TRUE
         IN  FAdd(f[k], SumOver(f, S \ {k}))

_agg_nan_entropy(x) ==
    LET c == CountsOf(x)
        n == Len(NonNaN(x))
        term == [k \in DOMAIN c |->
                    FMul(Frac(c[k], n), FLogRatio(c[k], n))]
    IN  IF DOMAIN c = {} THEN NaN
        ELSE FSub(Num(0), SumOver(term, DOMAIN c))

_agg_nan_asm(x) ==
    LET c == CountsOf(x)
        n == Len(NonNaN(x))
        term == [k \in DOMAIN c |-> FMul(Frac(c[k], n), Frac(c[k], n))]
    IN  IF DOMAIN c = {} THEN NaN
        ELSE SumOver(term, DOMAIN c)

FOCAL_PROMOTING_OPS == {"asm", "entropy", "mean", "median", "std", "var"}

FOCAL_STATS ==
    {"asm", "entropy", "max", "mean", "median", "mode", "min", "std", "sum",
     "var", "unique"}

\* the reducer _focal binds to each statistic name
AggFunc(name, x) ==
    CASE name = "asm" -> _agg_nan_asm(x)
      [] name = "entropy" -> _agg_nan_entropy(x)
      [] name = "min" -> _agg_nan_min(x)
      [] name = "max" -> _agg_nan_max(x)
      [] name = "mode" -> _agg_nan_mode(x)
      [] name = "mean" -> _agg_nan_mean(x)
      [] name = "median" -> _agg_nan_median(x)
      [] name = "std" -> _agg_nan_std(x)
      [] name = "var" -> _agg_nan_var(x)
      [] name = "sum" -> _agg_nan_sum(x)
      [] name = "unique" -> _agg_nan_unique(x)

-----------------------------------------------------------------------------
(* Values shared by the specifications *)

Ok(v) == [err |-> "none", val |-> v]
Err(e) == [err |-> e, val |-> <<>>]

NoRaster == [data |-> <<>>, mask |-> <<>>, dtype |-> "float", nv |-> <<>>]
NoWindow == [width_or_radius |-> <<>>, height |-> <<>>]
NoOut == Err("nocall")

\* sequences over S of length 0 .. n
SeqsUpTo(S, n) == UNION {[1 .. k -> S] : k \in 0 .. n}

-----------------------------------------------------------------------------
(* 2-D arrays *)

NRows(a) == Cardinality(DOMAIN a)
NCols(a) == IF DOMAIN a = {} THEN 0 ELSE Cardinality(DOMAIN a[0])

Max(a, b) == IF a >= b THEN a ELSE b

\* the value an uninitialised (np.empty) slot holds until it is written
Uninit == <<0, -1>>

-----------------------------------------------------------------------------
(* FootprintBuilder: get_focal_window *)

is_int(a) == a.ty = "int"

\* a circle whose boundary cells are left out
CircleWindowOpen(rvalue) ==
    LET width == ((rvalue - 1) * 2) + 1
        r == (width - 1) \div 2
    IN  [x \in 0 .. width - 1 |-> [y \in 0 .. width - 1 |->
            (x - r) * (x - r) + (y - r) * (y - r) < r * r]]

\* one pass of the loop at lines 568-578: the circle of radius rvalue
CircleWindow(rvalue) ==
    LET width == ((rvalue - 1) * 2) + 1
        r == (width - 1) \div 2
    IN  [x \in 0 .. width - 1 |-> [y \in 0 .. width - 1 |->
            (x - r) * (x - r) + (y - r) * (y - r) <= r * r]]

\* padding that puts all 2p new rows and columns after the array
PadFalseTrailing(w, p) ==
    LET n == NRows(w)
        m == NCols(w)
    IN  [x \in 0 .. n + 2 * p - 1 |-> [y \in 0 .. m + 2 * p - 1 |->
            IF x \in 0 .. n - 1 /\ y \in 0 .. m - 1 THEN w[x][y] ELSE FALSE]]

\* np.pad(w, p, mode="constant", constant_values=False): p cells on every side
PadFalse(w, p) ==
    LET n == NRows(w)
        m == NCols(w)
    IN  [x \in 0 .. n + 2 * p - 1 |-> [y \in 0 .. m + 2 * p - 1 |->
            IF (x - p) \in 0 .. n - 1 /\ (y - p) \in 0 .. m - 1
            THEN w[x - p][y - p] ELSE FALSE]]

AnnulusWindowClearsOuter(r1, r2) ==
    LET w2 == CircleWindow(r2)
    IN  [x \in DOMAIN w2 |-> [y \in DOMAIN w2[x] |-> w2[x][y] /\ ~w2[x][y]]]

AnnulusWindow(r1, r2) ==
    LET w1 == CircleWindow(r1)
        w2 == CircleWindow(r2)
        padding == (NRows(w2) - NRows(w1)) \div 2
        w1p == PadFalse(w1, padding)
    IN  [x \in DOMAIN w2 |-> [y \in DOMAIN w2[x] |->
            w2[x][y] /\ ~w1p[x][y]]]

RectWindowHeightFirst(width, height) ==
    [x \in 0 .. height - 1 |-> [y \in 0 .. width - 1 |-> TRUE]]

\* np.ones((width, height), dtype=bool)
RectWindow(width, height) ==
    [x \in 0 .. width - 1 |-> [y \in 0 .. height - 1 |-> TRUE]]

RadiiRejectedIfGreater(r1, r2) == r1 > r2

\* line 537: width_or_radius[0] >= width_or_radius[1]
RadiiRejected(r1, r2) == r1 >= r2

\* width_or_radius is [seq, vals]: seq says whether a list/tuple was passed;
\* height is <<>> for None or <<h>>; each number is [ty, v]
get_focal_window(width_or_radius, height) ==
    LET vals == width_or_radius.vals
        n == Len(vals)
    IN  IF width_or_radius.seq /\ n # 2 THEN Err("ValueError")
        ELSE IF width_or_radius.seq /\ RadiiRejected(vals[1].v, vals[2].v)
            THEN Err("ValueError")
        ELSE IF \E i \in 1 .. n :
                    /\ ~is_int(vals[i])
                    /\ \A j \in 1 .. (i - 1) : is_int(vals[j]) /\ vals[j].v > 0
            THEN Err("TypeError")
        ELSE IF \E i \in 1 .. n : vals[i].v <= 0 THEN Err("ValueError")
        ELSE IF height # <<>> /\ n = 2 THEN Err("ValueError")
        ELSE IF height # <<>> /\ ~is_int(height[1]) THEN Err("TypeError")
        ELSE IF height # <<>> /\ height[1].v <= 0 THEN Err("ValueError")
        ELSE IF height = <<>>
            THEN IF n # 2 THEN Ok(CircleWindow(vals[1].v))
                 ELSE Ok(AnnulusWindow(vals[1].v, vals[2].v))
        ELSE Ok(RectWindow(vals[1].v, height[1].v))

-----------------------------------------------------------------------------
(* HaloPlanner and the tiling substrate *)

GetOffsetsLeadingLarger(kernel_shape) ==
    LET krows == kernel_shape[1]
        kcols == kernel_shape[2]
    IN  <<<<krows \div 2, (krows - 1) \div 2>>,
          <<kcols \div 2, (kcols - 1) \div 2>>>>

_get_offsets(kernel_shape) ==
    LET krows == kernel_shape[1]
        kcols == kernel_shape[2]
    IN  <<<<(krows - 1) \div 2, krows \div 2>>,
          <<(kcols - 1) \div 2, kcols \div 2>>>>

\* the symmetric halo depth _focal_dask_map asks map_overlap for
PadDepth(offsets) ==
    <<Max(offsets[1][1], offsets[1][2]), Max(offsets[2][1], offsets[2][2])>>

_MODE_TO_DASK_BOUNDARY ==
    [reflect |-> "reflect", nearest |-> "nearest", wrap |-> "periodic",
     constant |-> "constant"]

_VALID_CORRELATE_MODES == DOMAIN _MODE_TO_DASK_BOUNDARY

\* the source index map_overlap reads for position i of an axis of length n
\* under boundary kind b (halo depth <= n); -1 stands for the constant fill
DaskExtIdx(i, n, b) ==
    IF i \in 0 .. n - 1 THEN i
    ELSE CASE b = "reflect" -> IF i < 0 THEN -i - 1 ELSE 2 * n - 1 - i
           [] b = "nearest" -> IF i < 0 THEN 0 ELSE n - 1
           [] b = "periodic" -> IF i < 0 THEN i + n ELSE i - n
           [] OTHER -> -1

\* the padded tile map_overlap hands to the chunk function (one chunk);
\* boundary is [kind, value]
Overlap(data, dtype, rpad, cpad, boundary, g) ==
    LET rows == NRows(data)
        cols == NCols(data)
    IN  [i \in 0 .. rows + 2 * rpad - 1 |-> [j \in 0 .. cols + 2 * cpad - 1 |->
            LET r == DaskExtIdx(i - rpad, rows, boundary.kind)
                c == DaskExtIdx(j - cpad, cols, boundary.kind)
            IN  IF r = -1 \/ c = -1 THEN CastTo(dtype, boundary.value, g)
                ELSE data[r][c]]]

TrimNothing(a, rpad, cpad) == a

\* map_overlap trims the halo depth off the chunk function's result
Trim(a, rpad, cpad) ==
    [r \in 0 .. NRows(a) - 2 * rpad - 1 |->
        [c \in 0 .. NCols(a) - 2 * cpad - 1 |-> a[r + rpad][c + cpad]]]

-----------------------------------------------------------------------------
(* TileKernel *)

\* the cells of a rows x cols padded tile the tile kernels compute: the
\* outer overlap rows and columns are skipped (lines 157-160, 188-191)
InteriorCells(rows, cols, krows, kcols) ==
    LET r_ovlp == Max((krows - 1) \div 2, krows \div 2)
        c_ovlp == Max((kcols - 1) \div 2, kcols \div 2)
    IN  (r_ovlp .. rows - r_ovlp - 1) \X (c_ovlp .. cols - c_ovlp - 1)

FootprintScanOneRowMore(krows, kcols, r, c) ==
    LET kr_top == (krows - 1) \div 2
        kc_left == (kcols - 1) \div 2
        nr == (r + krows \div 2 + 2) - (r - kr_top)
        nc == (c + kcols \div 2 + 1) - (c - kc_left)
    IN  [n \in 1 .. nr * nc |->
            [kr |-> r - kr_top + (n - 1) \div nc,
             kc |-> c - kc_left + ((n - 1) % nc),
             ki |-> n - 1]]

\* the footprint scan of the cell (r, c) (lines 164-169, 194-199): for every
\* pass of the inner loop body, in order, the tile indices kr, kc and the
\* flat kernel index ki it reads with; ki is n after the n-th pass
FootprintScan(krows, kcols, r, c) ==
    LET kr_top == (krows - 1) \div 2
        kc_left == (kcols - 1) \div 2
        nr == (r + krows \div 2 + 1) - (r - kr_top)
        nc == (c + kcols \div 2 + 1) - (c - kc_left)
    IN  [n \in 1 .. nr * nc |->
            [kr |-> r - kr_top + (n - 1) \div nc,
             kc |-> c - kc_left + ((n - 1) % nc),
             ki |-> n - 1]]

\* kernel_values as handed to func for the cell (r, c) of the padded tile
KernelValues(chunk, dtype, kern, r, c, g) ==
    LET krows == NRows(kern)
        kcols == NCols(kern)
        fill == CastTo(dtype, NaN, g)
        scan == FootprintScan(krows, kcols, r, c)
    IN  [n \in 1 .. krows * kcols |->
            \* kernel[ki] of the ravelled footprint
            IF kern[scan[n].ki \div kcols][scan[n].ki % kcols]
            THEN chunk[scan[n].kr][scan[n].kc]
            ELSE fill]

_focal_chunk(chunk, dtype, kern, func, g) ==
    LET rows == NRows(chunk)
        cols == NCols(chunk)
        krows == NRows(kern)
        kcols == NCols(kern)
        r_ovlp == Max((krows - 1) \div 2, krows \div 2)
        c_ovlp == Max((kcols - 1) \div 2, kcols \div 2)
    IN  [r \in 0 .. rows - 1 |-> [c \in 0 .. cols - 1 |->
            IF r \in r_ovlp .. rows - r_ovlp - 1
               /\ c \in c_ovlp .. cols - c_ovlp - 1
            THEN CastTo(dtype,
                        AggFunc(func, KernelValues(chunk, dtype, kern, r, c, g)),
                        g)
            ELSE Uninit]]

\* _focal_dispatch("focal", ...) through _focal_dask_map
FocalDispatch(data, dtype, kern, func, boundary, g) ==
    LET offsets == _get_offsets(<<NRows(kern), NCols(kern)>>)
        rpad == PadDepth(offsets)[1]
        cpad == PadDepth(offsets)[2]
    IN  Trim(_focal_chunk(Overlap(data, dtype, rpad, cpad, boundary, g),
                          dtype, kern, func, g),
             rpad, cpad)

-----------------------------------------------------------------------------
(* The delegated filters (dask_image.ndfilters, i.e. scipy.ndimage) as the  *)
(* source calls them                                                        *)

\* an index map whose "reflect" mirrors about the edge cell without
\* repeating it
NdExtIdxEdgeNotRepeated(i, n, m) ==
    IF i \in 0 .. n - 1 THEN i
    ELSE CASE m = "nearest" -> IF i < 0 THEN 0 ELSE n - 1
           [] m = "reflect" ->
                IF n = 1 THEN 0
                ELSE LET j == i % (2 * n - 2)
                     IN  IF j < n THEN j ELSE 2 * n - 2 - j
           [] m = "wrap" -> i % n
           [] OTHER -> -1

\* scipy.ndimage edge extension: the source index read for position i of an
\* axis of length n; -1 stands for the constant fill (cval)
NdExtIdx(i, n, m) ==
    IF i \in 0 .. n - 1 THEN i
    ELSE CASE m = "nearest" -> IF i < 0 THEN 0 ELSE n - 1
           [] m = "reflect" ->
                LET j == i % (2 * n)
                IN  IF j < n THEN j ELSE 2 * n - 1 - j
           [] m = "mirror" ->
                IF n = 1 THEN 0
                ELSE LET j == i % (2 * n - 2)
                     IN  IF j < n THEN j ELSE 2 * n - 2 - j
           [] m = "wrap" -> i % n
           [] OTHER -> -1

\* the value a filter of kernel shape (krows, kcols) with the given origin
\* reads at kernel position (i, j) when it is placed on output cell (r, c):
\* a filter axis of length k is centred on index k // 2 and shifted by -origin
NdRead(data, r, c, i, j, krows, kcols, m, cv, origin) ==
    LET sr == NdExtIdx(r + i - (krows \div 2) - origin[1], NRows(data), m)
        sc == NdExtIdx(c + j - (kcols \div 2) - origin[2], NCols(data), m)
    IN  IF sr = -1 \/ sc = -1 THEN cv ELSE data[sr][sc]

\* ndfilters.correlate(data, weights, mode=m, cval=cv, origin=origin);
\* the result has the dtype of data
NdCorrelate(data, dtype, weights, m, cv, origin, g) ==
    LET krows == NRows(weights)
        kcols == NCols(weights)
    IN  [r \in DOMAIN data |-> [c \in DOMAIN data[r] |->
            CastTo(dtype,
                SumSeq([ki \in 1 .. krows * kcols |->
                    LET i == (ki - 1) \div kcols
                        j == (ki - 1) % kcols
                    IN  FMul(weights[i][j],
                             NdRead(data, r, c, i, j, krows, kcols, m, cv,
                                    origin))]),
                g)]]

\* the values under the true cells of the footprint
NdFootprintValues(data, footprint, r, c, m, origin) ==
    LET krows == NRows(footprint)
        kcols == NCols(footprint)
        on == SelectSeq([ki \in 1 .. krows * kcols |-> ki],
                        LAMBDA ki : footprint[(ki - 1) \div kcols]
                                             [(ki - 1) % kcols])
    IN  [k \in 1 .. Len(on) |->
            NdRead(data, r, c, (on[k] - 1) \div kcols, (on[k] - 1) % kcols,
                   krows, kcols, m, Num(0), origin)]

\* ndfilters.minimum_filter(data, footprint=footprint, mode=m)
NdMinimumFilter(data, footprint, m, origin) ==
    [r \in DOMAIN data |-> [c \in DOMAIN data[r] |->
        LET v == NdFootprintValues(data, footprint, r, c, m, origin)
        IN  CHOOSE x \in Range(v) : \A o \in Range(v) : ~FLess(o, x)]]

\* ndfilters.maximum_filter(data, footprint=footprint, mode=m)
NdMaximumFilter(data, footprint, m, origin) ==
    [r \in DOMAIN data |-> [c \in DOMAIN data[r] |->
        LET v == NdFootprintValues(data, footprint, r, c, m, origin)
        IN  CHOOSE x \in Range(v) : \A o \in Range(v) : ~FLess(x, o)]]

-----------------------------------------------------------------------------
(* FocalEngine: _focal and focal *)

promote_dtype_to_float(dtype) == "float"

\* a bool footprint used as correlation weights
BoolWeights(kern) ==
    [i \in DOMAIN kern |-> [j \in DOMAIN kern[i] |->
        IF kern[i][j] THEN Num(1) ELSE Num(0)]]

NaNBoundary == [kind |-> "constant", value |-> NaN]

\* _focal(data, kernel, stat, nan_aware) on one band: [a, dtype]
_focal(data, dtype, kern, st, nan_aware, g) ==
    LET dt == IF nan_aware \/ st \in FOCAL_PROMOTING_OPS
              THEN promote_dtype_to_float(dtype) ELSE dtype
    IN  CASE st = "min" /\ ~nan_aware ->
                [a |-> NdMinimumFilter(data, kern, "nearest", <<0, 0>>),
                 dtype |-> dt]
          [] st = "max" /\ ~nan_aware ->
                [a |-> NdMaximumFilter(data, kern, "nearest", <<0, 0>>),
                 dtype |-> dt]
          [] st = "sum" /\ ~nan_aware ->
                [a |-> NdCorrelate(data, dt, BoolWeights(kern), "constant",
                                   Num(0), <<0, 0>>, g),
                 dtype |-> dt]
          [] OTHER ->
                [a |-> FocalDispatch(data, dt, kern, st, NaNBoundary, g),
                 dtype |-> dt]

\* elementwise ndarray.astype / store into an array of the given dtype
AsType(a, dtype, g) ==
    [r \in DOMAIN a |-> [c \in DOMAIN a[r] |-> CastTo(dtype, a[r][c], g)]]

_masked(rs) == rs.nv # <<>>

\* an encoding that reads the first band's mask for every band
FocalEncodeFirstBandMask(rs) ==
    LET new_dtype == promote_dtype_to_float(rs.dtype)
        upcast == _masked(rs) /\ new_dtype # rs.dtype
    IN  [data |-> IF _masked(rs)
                  THEN [b \in DOMAIN rs.data |->
                          [r \in DOMAIN rs.data[b] |->
                            [c \in DOMAIN rs.data[b][r] |->
                              IF ~rs.mask[1][r][c]
                              THEN rs.data[b][r][c] ELSE NaN]]]
                  ELSE rs.data,
         dtype |-> IF upcast THEN new_dtype ELSE rs.dtype,
         upcast |-> upcast]

\* lines 485-492 of focal: integer data of a masked raster is cast to float
\* and the null cells are encoded as NaN: [data, dtype, upcast]
FocalEncode(rs) ==
    LET new_dtype == promote_dtype_to_float(rs.dtype)
        upcast == _masked(rs) /\ new_dtype # rs.dtype
    IN  [data |-> IF _masked(rs)
                  THEN [b \in DOMAIN rs.data |->
                          [r \in DOMAIN rs.data[b] |->
                            [c \in DOMAIN rs.data[b][r] |->
                              IF ~rs.mask[b][r][c]
                              THEN rs.data[b][r][c] ELSE NaN]]]
                  ELSE rs.data,
         dtype |-> IF upcast THEN new_dtype ELSE rs.dtype,
         upcast |-> upcast]

\* the band loop of focal (lines 494-495), data[bnd] = _focal(...): every
\* band's result is stored with data's dtype
FocalBands(enc, w, focal_type, nan_aware, g) ==
    [b \in DOMAIN enc.data |->
        AsType(_focal(enc.data[b], enc.dtype, w, focal_type, nan_aware, g).a,
               enc.dtype, g)]

\* focal(raster, focal_type, width_or_radius, height)
focal(rs, focal_type, width_or_radius, height, g) ==
    IF focal_type \notin FOCAL_STATS THEN Err("ValueError")
    ELSE LET w == get_focal_window(width_or_radius, height)
         IN  IF w.err # "none" THEN w
             ELSE LET final_dtype == rs.dtype
                      enc == FocalEncode(rs)
                      data2 == FocalBands(enc, w.val, focal_type,
                                          _masked(rs), g)
                      demote == enc.upcast
                                /\ focal_type \notin FOCAL_PROMOTING_OPS
                  IN  Ok([data |-> IF demote
                                   THEN [b \in DOMAIN data2 |->
                                           AsType(data2[b], final_dtype, g)]
                                   ELSE data2,
                          mask |-> rs.mask,
                          dtype |-> IF demote THEN final_dtype ELSE enc.dtype,
                          nv |-> rs.nv])

\* focal(raster, focal_type, width_or_radius, height, mode=m): the signature
\* (line 414) has no `mode` parameter, so binding the arguments raises
focal_with_mode(rs, focal_type, width_or_radius, height, m, g) ==
    Err("TypeError")

\* the number of bands for which focal has called _focal when it returns or
\* raises: the statistic and the footprint are checked before the band loop
focal_scheduled(rs, focal_type, width_or_radius, height) ==
    IF focal_type \notin FOCAL_STATS THEN 0
    ELSE IF get_focal_window(width_or_radius, height).err # "none" THEN 0
    ELSE Len(rs.data)

-----------------------------------------------------------------------------
(* CorrelationKernel: check_kernel, _correlate2d_chunk, _correlate,         *)
(* correlate and convolve.  A kernel is [ndim, dtype, a]                    *)

CheckKernelAcceptsAll(k) == "none"

CheckKernelNdimOnly(k) == IF k.ndim # 2 THEN "ValueError" ELSE "none"

\* check_kernel(kernel): the error it raises, or "none"
check_kernel(k) ==
    IF k.ndim # 2 THEN "ValueError"
    ELSE IF \E i \in DOMAIN k.a : \E j \in DOMAIN k.a[i] : IsNaN(k.a[i][j])
        THEN "ValueError"
    ELSE "none"

Correlate2dChunkPoisoned(chunk, kern) ==
    LET rows == NRows(chunk)
        cols == NCols(chunk)
        krows == NRows(kern)
        kcols == NCols(kern)
        kr_top == (krows - 1) \div 2
        kc_left == (kcols - 1) \div 2
        r_ovlp == Max(kr_top, krows \div 2)
        c_ovlp == Max(kc_left, kcols \div 2)
    IN  [r \in 0 .. rows - 1 |-> [c \in 0 .. cols - 1 |->
            IF r \in r_ovlp .. rows - r_ovlp - 1
               /\ c \in c_ovlp .. cols - c_ovlp - 1
            THEN SumSeq([ki \in 1 .. krows * kcols |->
                    LET i == (ki - 1) \div kcols
                        j == (ki - 1) % kcols
                    IN  FMul(kern[i][j],
                             chunk[r - kr_top + i][c - kc_left + j])])
            ELSE Uninit]]

\* the body of one iteration of the cell loops of _correlate2d_chunk (lines
\* 192-200): the value v it accumulates for the cell (r, c) from the tile
\* and the ravelled kernel
CorrelateCell(chunk, kern, r, c) ==
    LET kcols == NCols(kern)
        scan == FootprintScan(NRows(kern), kcols, r, c)
    IN  SumSeq([n \in 1 .. NRows(kern) * kcols |->
            LET val == chunk[scan[n].kr][scan[n].kc]
            IN  IF ~IsNaN(val)
                THEN FMul(kern[scan[n].ki \div kcols][scan[n].ki % kcols], val)
                ELSE Num(0)])

_correlate2d_chunk(chunk, kern) ==
    LET rows == NRows(chunk)
        cols == NCols(chunk)
        cells == InteriorCells(rows, cols, NRows(kern), NCols(kern))
    IN  [r \in 0 .. rows - 1 |-> [c \in 0 .. cols - 1 |->
            IF <<r, c>> \in cells THEN CorrelateCell(chunk, kern, r, c)
            ELSE Uninit]]

\* _focal_dispatch("correlate", ...) through _focal_dask_map
CorrelateDispatch(data, dtype, kern, boundary, g) ==
    LET offsets == _get_offsets(<<NRows(kern), NCols(kern)>>)
        rpad == PadDepth(offsets)[1]
        cpad == PadDepth(offsets)[2]
    IN  Trim(_correlate2d_chunk(Overlap(data, dtype, rpad, cpad, boundary, g),
                                kern),
             rpad, cpad)

OriginCentred(kern) == <<0, 0>>

\* lines 319-321: origin -1 on every even kernel dimension
ShiftOrigin(kern) ==
    <<IF NRows(kern) % 2 = 0 THEN -1 ELSE 0,
      IF NCols(kern) % 2 = 0 THEN -1 ELSE 0>>

\* _correlate(data, kernel, mode, cval, nan_aware) on one band:
\* [err, a, dtype]
_correlate(data, dtype, k, m, cv, nan_aware, g) ==
    IF check_kernel(k) # "none" THEN [err |-> check_kernel(k)]
    ELSE IF m \notin _VALID_CORRELATE_MODES THEN [err |-> "ValueError"]
    ELSE LET kdtype == IF k.dtype = "bool" THEN "int" ELSE k.dtype
             dt == IF nan_aware \/ (dtype = "int" /\ kdtype = "float")
                   THEN "float" ELSE dtype
         IN  IF nan_aware
             THEN [err |-> "none",
                   a |-> CorrelateDispatch(data, dt, k.a,
                            IF _MODE_TO_DASK_BOUNDARY[m] = "constant"
                            THEN [kind |-> "constant", value |-> cv]
                            ELSE [kind |-> _MODE_TO_DASK_BOUNDARY[m],
                                  value |-> cv],
                            g),
                   dtype |-> dt]
             ELSE [err |-> "none",
                   a |-> NdCorrelate(data, dt, k.a, m, cv, ShiftOrigin(k.a), g),
                   dtype |-> dt]

\* lines 636-649 of correlate: the cast for a float kernel and the NaN
\* encoding of the null cells: [data, dtype, final_dtype, upcast]
CorrelateEncode(rs, k) ==
    LET dtype0 == IF k.dtype = "float" /\ rs.dtype = "int"
                  THEN "float" ELSE rs.dtype
        new_dtype == promote_dtype_to_float(dtype0)
        upcast == _masked(rs) /\ new_dtype # dtype0
    IN  [data |-> IF _masked(rs)
                  THEN [b \in DOMAIN rs.data |->
                          [r \in DOMAIN rs.data[b] |->
                            [c \in DOMAIN rs.data[b][r] |->
                              IF rs.mask[b][r][c]
                              THEN NaN ELSE rs.data[b][r][c]]]]
                  ELSE rs.data,
         dtype |-> IF upcast THEN new_dtype ELSE dtype0,
         final_dtype |-> dtype0,
         upcast |-> upcast]

\* the band loop of correlate (lines 651-654): _correlate of every band
CorrelateBands(rs, k, m, cv, g) ==
    LET enc == CorrelateEncode(rs, k)
    IN  [b \in DOMAIN enc.data |->
            _correlate(enc.data[b], enc.dtype, k, m, cv, _masked(rs), g)]

\* the number of bands whose filter the band loop has built when correlate
\* returns or raises: the loop stops at the first band whose _correlate raises
correlate_scheduled(rs, k, m, cv, g) ==
    IF check_kernel(k) # "none" THEN 0
    ELSE LET res == CorrelateBands(rs, k, m, cv, g)
         IN  Cardinality({b \in DOMAIN res :
                            \A b2 \in 1 .. b : res[b2].err = "none"})

\* correlate(raster, kernel, mode, cval)
correlate(rs, k, m, cv, g) ==
    IF check_kernel(k) # "none" THEN Err(check_kernel(k))
    ELSE LET enc == CorrelateEncode(rs, k)
             res == CorrelateBands(rs, k, m, cv, g)
         IN  IF \E b \in DOMAIN res : res[b].err # "none"
             THEN Err(res[CHOOSE b \in DOMAIN res :
                            /\ res[b].err # "none"
                            /\ \A b2 \in 1 .. (b - 1) : res[b2].err = "none"].err)
             ELSE LET data2 == [b \in DOMAIN res |->
                                   AsType(res[b].a, enc.dtype, g)]
                  IN  Ok([data |-> IF enc.upcast
                                   THEN [b \in DOMAIN data2 |->
                                           AsType(data2[b], enc.final_dtype, g)]
                                   ELSE data2,
                          mask |-> rs.mask,
                          dtype |-> IF enc.upcast THEN enc.final_dtype
                                    ELSE enc.dtype,
                          nv |-> rs.nv])

KernelFlipRowsOnly(a) ==
    [i \in DOMAIN a |-> [j \in DOMAIN a[i] |-> a[NRows(a) - 1 - i][j]]]

\* kernel[::-1, ::-1]
KernelFlip(a) ==
    [i \in DOMAIN a |-> [j \in DOMAIN a[i] |->
        a[NRows(a) - 1 - i][NCols(a) - 1 - j]]]

\* convolve(raster, kernel, mode, cval)
convolve(rs, k, m, cv, g) ==
    IF check_kernel(k) # "none" THEN Err(check_kernel(k))
    ELSE correlate(rs, [k EXCEPT !.a = KernelFlip(k.a)], m, cv, g)

convolve_scheduled(rs, k, m, cv, g) ==
    IF check_kernel(k) # "none" THEN 0
    ELSE correlate_scheduled(rs, [k EXCEPT !.a = KernelFlip(k.a)], m, cv, g)

-----------------------------------------------------------------------------
(* SpecAgg: a reducer applied to a float sample *)

SampleVals == {Num(v) : v \in -1 .. MaxVal} \cup {NaN}

InitAgg ==
    /\ op = "init"
    /\ sample \in SeqsUpTo(SampleVals, MaxSampleLen)
    /\ raster = NoRaster
    /\ castNaN = 0
    /\ stat = "none"
    /\ window = NoWindow
    /\ kernel = <<>>
    /\ mode = "none"
    /\ cval = NaN
    /\ out = NoOut
    /\ scheduled = 0
    /\ chunks = <<>>
    /\ pending = {}
    /\ writes = <<>>
    /\ tile = <<>>
    /\ locals = <<>>
    /\ calls = 0
    /\ heap = <<>>

Agg ==
    /\ op = "init"
    /\ sample # <<>>
    /\ \E name \in FOCAL_STATS :
        /\ stat' = name
        /\ out' = Ok(AggFunc(name, sample))
    /\ op' = "agg"
    /\ UNCHANGED <<raster, castNaN, sample, window, kernel, mode, cval,
                   scheduled>>
    /\ UNCHANGED tiling
    /\ UNCHANGED objects

NextAgg == Agg

SpecAgg == InitAgg /\ [][NextAgg]_vars

-----------------------------------------------------------------------------
(* SpecMode: the mode reducer applied to a large sample, given by its runs *)

\* run lengths: short runs and runs around the width of the count array
RunLengths == {0, 1, 2, CntMod - 1, CntMod, CntMod + 1}

\* the values of the runs, in the order they lie in the array
RunVals == <<NaN, Num(2), Num(1)>>

RunSamples ==
    {[i \in 1 .. Len(RunVals) |-> [v |-> RunVals[i], n |-> f[i]]] :
        f \in [1 .. Len(RunVals) -> RunLengths]}

InitMode ==
    /\ op = "init"
    /\ sample \in RunSamples
    /\ raster = NoRaster
    /\ castNaN = 0
    /\ stat = "mode"
    /\ window = NoWindow
    /\ kernel = <<>>
    /\ mode = "none"
    /\ cval = NaN
    /\ out = NoOut
    /\ scheduled = 0
    /\ chunks = <<>>
    /\ pending = {}
    /\ writes = <<>>
    /\ tile = <<>>
    /\ locals = <<>>
    /\ calls = 0
    /\ heap = <<>>

AggMode ==
    /\ op = "init"
    /\ \E i \in 1 .. Len(sample) : sample[i].n > 0
    /\ out' = Ok(_agg_nan_mode_runs(sample))
    /\ op' = "mode"
    /\ UNCHANGED <<raster, castNaN, sample, stat, window, kernel, mode, cval,
                   scheduled>>
    /\ UNCHANGED tiling
    /\ UNCHANGED objects

NextMode == AggMode

SpecMode == InitMode /\ [][NextMode]_vars

\* the number of slots of the run-encoded sample that hold v
Occurrences(v) ==
    SumSeq([i \in 1 .. Len(sample) |->
              IF sample[i].v = v THEN Num(sample[i].n) ELSE Num(0)])[1]

\* C30: the mode reducer returns a most frequent value for samples of every
\* size: the per-value occurrence counts it compares are exact, not wrapped
\* modulo 2^16, also when a value occurs 65536 or more times.
C30_ModeCountsExact ==
    (op = "mode" /\ \E i \in 1 .. Len(sample) :
                        ~IsNaN(sample[i].v) /\ sample[i].n > 0) =>
        /\ ~IsNaN(out.val)
        /\ Occurrences(out.val) > 0
        /\ \A i \in 1 .. Len(sample) :
               ~IsNaN(sample[i].v) =>
                   Occurrences(sample[i].v) <= Occurrences(out.val)

-----------------------------------------------------------------------------
(* SpecFocal: one focal call on a one-band raster *)

\* INT16_MIN: what an x86 build's float->int16 cast makes of NaN
IntMin == -32768

\* outcomes of the undefined float NaN -> integer cast (x86, ARM)
NaNCasts == {IntMin, 0}

CellVals == {Num(1), Num(2)}

\* null value of the masked integer rasters
IntNull == Num(-9)

Grids(S) == [0 .. GridRows - 1 -> [0 .. GridCols - 1 -> S]]

\* a one-band raster from a grid p in which NaN marks the null cells: the
\* mask is true there and the data holds the null value
MkRaster(p, dtype, nv) ==
    [data |-> <<[r \in DOMAIN p |-> [c \in DOMAIN p[r] |->
                    IF IsNaN(p[r][c]) /\ nv # <<>> THEN nv[1] ELSE p[r][c]]]>>,
     mask |-> <<[r \in DOMAIN p |-> [c \in DOMAIN p[r] |-> IsNaN(p[r][c])]]>>,
     dtype |-> dtype,
     nv |-> nv]

Rasters ==
    {MkRaster(p, dt, <<>>) : p \in Grids(CellVals), dt \in {"int", "float"}}
    \cup {MkRaster(p, "int", <<IntNull>>) : p \in Grids(CellVals \cup {NaN})}
    \cup {MkRaster(p, "float", <<NaN>>) : p \in Grids(CellVals \cup {NaN})}

I(n) == [ty |-> "int", v |-> n]

CircleArgs ==
    {[width_or_radius |-> [seq |-> FALSE, vals |-> <<I(r)>>], height |-> <<>>] :
        r \in 1 .. MaxWin}

AnnulusArgs ==
    {[width_or_radius |-> [seq |-> TRUE, vals |-> <<I(rr[1]), I(rr[2])>>],
      height |-> <<>>] :
        rr \in {q \in (1 .. MaxWin) \X (1 .. MaxWin) : q[1] < q[2]}}

RectArgs ==
    {[width_or_radius |-> [seq |-> FALSE, vals |-> <<I(wh[1])>>],
      height |-> <<I(wh[2])>>] :
        wh \in (1 .. MaxWin) \X (1 .. MaxWin)}

FocalWindowArgs == CircleArgs \cup AnnulusArgs \cup RectArgs

\* a float argument of integral value n, e.g. 2.0
F(n) == [ty |-> "float", v |-> n]

\* footprint specs get_focal_window rejects
BadWindowArgs ==
    {[width_or_radius |-> [seq |-> FALSE, vals |-> <<I(0)>>], height |-> <<>>],
     [width_or_radius |-> [seq |-> FALSE, vals |-> <<F(1)>>], height |-> <<>>],
     [width_or_radius |-> [seq |-> TRUE, vals |-> <<I(2), I(1)>>],
      height |-> <<>>],
     [width_or_radius |-> [seq |-> FALSE, vals |-> <<I(1)>>],
      height |-> <<I(0)>>],
     [width_or_radius |-> [seq |-> TRUE, vals |-> <<I(1), I(2)>>],
      height |-> <<I(1)>>]}

\* the statistic names of a focal call: the catalogue and an unknown name
FocalTypeArgs == FOCAL_STATS \cup {"other"}

InitFocal ==
    /\ op = "init"
    /\ raster \in Rasters
    /\ castNaN \in (IF raster.dtype = "int" THEN NaNCasts ELSE {IntMin})
    /\ sample = <<>>
    /\ stat = "none"
    /\ window = NoWindow
    /\ kernel = <<>>
    /\ mode = "none"
    /\ cval = NaN
    /\ out = NoOut
    /\ scheduled = 0
    /\ chunks = <<>>
    /\ pending = {}
    /\ writes = <<>>
    /\ tile = <<>>
    /\ locals = <<>>
    /\ calls = 0
    /\ heap = <<>>

Focal ==
    /\ op = "init"
    /\ \E st \in FocalTypeArgs, w \in FocalWindowArgs \cup BadWindowArgs :
        /\ stat' = st
        /\ window' = w
        /\ out' = focal(raster, st, w.width_or_radius, w.height, castNaN)
        /\ scheduled' = focal_scheduled(raster, st, w.width_or_radius,
                                        w.height)
    /\ op' = "focal"
    /\ UNCHANGED <<raster, castNaN, sample, kernel, mode, cval>>
    /\ UNCHANGED tiling
    /\ UNCHANGED objects

NextFocal == Focal

SpecFocal == InitFocal /\ [][NextFocal]_vars

-----------------------------------------------------------------------------
(* Reference definitions used by the properties *)

\* the brute-force null-filtered neighbourhood of cell (r, c) of band b under
\* footprint W: the values at the true offsets of W, placed with
\* top = (rows-1)//2 and left = (cols-1)//2, whose source cell lies in the
\* grid and is not null
BruteSample(rs, b, W, r, c) ==
    LET krows == NRows(W)
        kcols == NCols(W)
        top == (krows - 1) \div 2
        left == (kcols - 1) \div 2
        on == SelectSeq([ki \in 1 .. krows * kcols |-> ki],
                LAMBDA ki :
                    LET i == (ki - 1) \div kcols
                        j == (ki - 1) % kcols
                    IN  /\ W[i][j]
                        /\ (r - top + i) \in DOMAIN rs.data[b]
                        /\ (c - left + j) \in DOMAIN rs.data[b][0]
                        /\ ~rs.mask[b][r - top + i][c - left + j]
                        /\ ~IsNaN(rs.data[b][r - top + i][c - left + j]))
    IN  [k \in 1 .. Len(on) |->
            rs.data[b][r - top + ((on[k] - 1) \div kcols)]
                      [c - left + ((on[k] - 1) % kcols)]]

\* the footprint of the focal call recorded in the state
CallWindow == get_focal_window(window.width_or_radius, window.height).val

IsRectCall == window.height # <<>>

\* whether focal routes the call through the tile kernel _focal_chunk
UsesTileKernel == _masked(raster) \/ stat \notin {"min", "max", "sum"}

\* dtype of the tile _focal hands to the tile kernel
TileDtype ==
    IF _masked(raster) \/ stat \in FOCAL_PROMOTING_OPS
    THEN "float" ELSE FocalEncode(raster).dtype

\* the padded tile of band b that _focal_chunk receives
CallTile(b) ==
    LET offsets == _get_offsets(<<NRows(CallWindow), NCols(CallWindow)>>)
    IN  Overlap(FocalEncode(raster).data[b], TileDtype,
                Max(offsets[1][1], offsets[1][2]),
                Max(offsets[2][1], offsets[2][2]), NaNBoundary, castNaN)

FocalDone == op = "focal" /\ out.err = "none"

-----------------------------------------------------------------------------
(* Properties *)

\* C1: for every interior cell of the padded tile, every footprint, every
\* statistic and every tile dtype, the non-NaN values _focal_chunk hands to
\* the reducer are exactly the brute-force null-filtered neighbourhood
\* (values of false offsets, null cells and fill slots never contribute).
C1_SampleIsNullFilteredNeighbourhood ==
    (FocalDone /\ UsesTileKernel) =>
        \A b \in DOMAIN raster.data :
            \A r \in DOMAIN raster.data[b] :
                \A c \in DOMAIN raster.data[b][r] :
                    LET offs == _get_offsets(<<NRows(CallWindow),
                                               NCols(CallWindow)>>)
                        rpad == PadDepth(offs)[1]
                        cpad == PadDepth(offs)[2]
                    IN  SortAsc(NonNaN(KernelValues(CallTile(b), TileDtype,
                                    CallWindow, r + rpad, c + cpad, castNaN)))
                        = SortAsc(BruteSample(raster, b, CallWindow, r, c))

\* C2: in the null-oblivious min, max and sum paths the footprint is placed
\* at rows r-(rows-1)//2 .. r+rows//2 and columns c-(cols-1)//2 .. c+cols//2,
\* like in the tile kernel (stated for rectangle footprints, odd or even).
C2_FastPathPlacement ==
    (FocalDone /\ ~UsesTileKernel /\ IsRectCall) =>
        \A b \in DOMAIN raster.data :
            \A r \in DOMAIN raster.data[b] :
                \A c \in DOMAIN raster.data[b][r] :
                    out.val.data[b][r][c]
                    = AggFunc(stat, BruteSample(raster, b, CallWindow, r, c))

\* C3: each of the eleven reducers returns NaN when the null-filtered
\* sample is empty.
C3_EmptySampleGivesNaN ==
    (op = "agg" /\ NonNaN(sample) = <<>>) => IsNaN(out.val)

\* C4: focal's output dtype is floating for mean, median, std, var, asm and
\* entropy whatever the input dtype and mask, and equals the input dtype for
\* every other statistic.
C4_OutputDtype ==
    FocalDone =>
        out.val.dtype = (IF stat \in FOCAL_PROMOTING_OPS THEN "float"
                         ELSE raster.dtype)

\* C5: every cell of focal's result whose null-filtered neighbourhood was
\* empty is null in the output mask and holds the raster's null value.
C5_EmptyNeighbourhoodIsNull ==
    FocalDone =>
        \A b \in DOMAIN raster.data :
            \A r \in DOMAIN raster.data[b] :
                \A c \in DOMAIN raster.data[b][r] :
                    BruteSample(raster, b, CallWindow, r, c) = <<>> =>
                        /\ out.val.mask[b][r][c]
                        /\ out.val.nv # <<>>
                        /\ out.val.data[b][r][c] = out.val.nv[1]

\* C6: on a non-empty null-filtered sample the mode reducer returns a value
\* of maximal occurrence count, and among the values tied for that count the
\* numerically smallest, whatever the order of the sample.
C6_ModeSmallestMostFrequent ==
    (op = "agg" /\ stat = "mode" /\ NonNaN(sample) # <<>>) =>
        LET s == NonNaN(sample)
            m == out.val
        IN  /\ m \in Range(s)
            /\ \A v \in Range(s) :
                /\ CountOf(v, s) <= CountOf(m, s)
                /\ CountOf(v, s) = CountOf(m, s) => ~FLess(v, m)

\* a mode call on a sample in which a larger value comes first and ties the
\* returned value for the highest count
C6_Witness ==
    /\ op = "agg" /\ stat = "mode" /\ NonNaN(sample) # <<>>
    /\ ~IsNaN(sample[1])
    /\ FLess(out.val, sample[1])
    /\ CountOf(sample[1], sample) = CountOf(out.val, sample)

\* sum of the squares of a sequence
SumSq(s) == SumSeq([i \in 1 .. Len(s) |-> FMul(s[i], s[i])])

\* (sum x^2 - (sum x)^2 / n) / n
PopVar(s) ==
    LET n == Num(Len(s))
    IN  FDiv(FSub(SumSq(s), FDiv(FMul(SumSeq(s), SumSeq(s)), n)), n)

NoNullCell ==
    \A b \in DOMAIN raster.data :
        \A r \in DOMAIN raster.data[b] : \A c \in DOMAIN raster.data[b][r] :
            ~raster.mask[b][r][c] /\ ~IsNaN(raster.data[b][r][c])

\* C25: on a grid with no null cells, focal min, max and sum give the same
\* value at every cell, border cells included, whether computed by the
\* null-oblivious fast path (nan_aware false) or by the null-aware tile
\* kernel (nan_aware true), for every footprint (rectangle, circle, annulus,
\* odd or even dimensions).
C25_FastPathMatchesTileKernel ==
    (FocalDone /\ stat \in {"min", "max", "sum"} /\ NoNullCell) =>
        \A b \in DOMAIN raster.data :
            LET enc == FocalEncode(raster)
            IN  _focal(enc.data[b], enc.dtype, CallWindow, stat, FALSE,
                       castNaN).a
                = _focal(enc.data[b], enc.dtype, CallWindow, stat, TRUE,
                         castNaN).a

-----------------------------------------------------------------------------
(* SpecCorrelate: one correlate or convolve call on a one-band raster *)

\* the kernel of the given shape and dtype whose weights 1, 2, 3, ... differ
\* at every position
RampKernel(krows, kcols, dtype) ==
    [ndim |-> 2, dtype |-> dtype,
     a |-> [i \in 0 .. krows - 1 |-> [j \in 0 .. kcols - 1 |->
              Num(1 + i * kcols + j)]]]

Kernels ==
    {RampKernel(kr, kc, dt) :
        kr \in 1 .. MaxWin, kc \in 1 .. MaxWin, dt \in {"int", "float"}}

\* kernels check_kernel rejects: np.ones(3), np.ones((1, 1, 3)) (`a` keeps
\* their weights as one row) and a 2-D kernel holding NaN
BadKernels ==
    {[ndim |-> 1, dtype |-> "float",
      a |-> [i \in {0} |-> [j \in 0 .. 2 |-> Num(1)]]],
     [ndim |-> 3, dtype |-> "float",
      a |-> [i \in {0} |-> [j \in 0 .. 2 |-> Num(1)]]],
     [ndim |-> 2, dtype |-> "float",
      a |-> [i \in {0} |-> [j \in 0 .. 1 |-> IF j = 0 THEN NaN ELSE Num(1)]]]}

\* the documented edge modes and scipy's fifth, "mirror"
Modes == {"reflect", "constant", "nearest", "mirror", "wrap"}

CVals == {Num(0), Num(3)}

\* mode and cval of a call: cval is left at its default 0.0 unless the mode
\* is "constant"
ModeArgs ==
    {<<m, Num(0)>> : m \in Modes} \cup {<<"constant", cv>> : cv \in CVals}

\* correlate and convolve cast no NaN to an integer (the kernels and fill
\* values are NaN-free and the null-aware sum skips NaN), so one cast outcome
\* is enough
InitCorrelate ==
    /\ op = "init"
    /\ raster \in Rasters
    /\ castNaN = IntMin
    /\ sample = <<>>
    /\ stat = "none"
    /\ window = NoWindow
    /\ kernel = <<>>
    /\ mode = "none"
    /\ cval = NaN
    /\ out = NoOut
    /\ scheduled = 0
    /\ chunks = <<>>
    /\ pending = {}
    /\ writes = <<>>
    /\ tile = <<>>
    /\ locals = <<>>
    /\ calls = 0
    /\ heap = <<>>

Correlate ==
    /\ op = "init"
    /\ \E k \in Kernels \cup BadKernels, mc \in ModeArgs :
        /\ kernel' = k
        /\ mode' = mc[1]
        /\ cval' = mc[2]
        /\ out' = correlate(raster, k, mc[1], mc[2], castNaN)
        /\ scheduled' = correlate_scheduled(raster, k, mc[1], mc[2], castNaN)
    /\ op' = "correlate"
    /\ UNCHANGED <<raster, castNaN, sample, stat, window>>
    /\ UNCHANGED tiling
    /\ UNCHANGED objects

Convolve ==
    /\ op = "init"
    /\ \E k \in Kernels \cup BadKernels, mc \in ModeArgs :
        /\ kernel' = k
        /\ mode' = mc[1]
        /\ cval' = mc[2]
        /\ out' = convolve(raster, k, mc[1], mc[2], castNaN)
        /\ scheduled' = convolve_scheduled(raster, k, mc[1], mc[2], castNaN)
    /\ op' = "convolve"
    /\ UNCHANGED <<raster, castNaN, sample, stat, window>>
    /\ UNCHANGED tiling
    /\ UNCHANGED objects

NextCorrelate == Correlate \/ Convolve

SpecCorrelate == InitCorrelate /\ [][NextCorrelate]_vars

-----------------------------------------------------------------------------
(* Properties of correlate and convolve *)

\* the weighted sum over the kernel positions whose source cell is non-null,
\* the kernel placed at rows r-(krows-1)//2 .. and the grid extended per m
NullSkippingSum(rs, b, K, m, cv, r, c) ==
    LET krows == NRows(K)
        kcols == NCols(K)
    IN  SumSeq([ki \in 1 .. krows * kcols |->
            LET i == (ki - 1) \div kcols
                j == (ki - 1) % kcols
                sr == NdExtIdx(r - ((krows - 1) \div 2) + i,
                               NRows(rs.data[b]), m)
                sc == NdExtIdx(c - ((kcols - 1) \div 2) + j,
                               NCols(rs.data[b]), m)
            IN  IF sr = -1 \/ sc = -1
                THEN (IF IsNaN(cv) THEN Num(0) ELSE FMul(K[i][j], cv))
                ELSE IF rs.mask[b][sr][sc] THEN Num(0)
                ELSE FMul(K[i][j], rs.data[b][sr][sc])])

\* C8: in the null-aware correlation path every output cell is the sum of
\* kernel[k] * value[k] over exactly the kernel positions whose source cell
\* is non-null; a null source cell contributes zero and the result is never
\* NaN.
C8_NullAwareCorrelateSkipsNulls ==
    (op = "correlate" /\ out.err = "none" /\ _masked(raster)) =>
        \A b \in DOMAIN raster.data :
            \A r \in DOMAIN raster.data[b] :
                \A c \in DOMAIN raster.data[b][r] :
                    /\ ~IsNaN(out.val.data[b][r][c])
                    /\ out.val.data[b][r][c]
                       = NullSkippingSum(raster, b, kernel.a, mode, cval, r, c)

\* a null-aware correlate call in which a kernel of more than one cell is
\* laid over a grid holding a null and a non-null cell
C8_Witness ==
    /\ op = "correlate" /\ out.err = "none" /\ _masked(raster)
    /\ NCols(kernel.a) >= 2
    /\ \E c1 \in DOMAIN raster.mask[1][0] : raster.mask[1][0][c1]
    /\ \E c2 \in DOMAIN raster.mask[1][0] :
        /\ ~raster.mask[1][0][c2]
        /\ out.val.data[1][0][c2][1] > 0

\* K[::-1, ::-1] by its index definition: entry (i, j) is K[R-1-i, C-1-j]
Rot180(k) ==
    [k EXCEPT !.a = [i \in 0 .. NRows(k.a) - 1 |-> [j \in 0 .. NCols(k.a) - 1 |->
                        k.a[NRows(k.a) - 1 - i][NCols(k.a) - 1 - j]]]]

\* C9: convolve(G, K, mode, cval) equals correlate(G, K[::-1, ::-1], mode,
\* cval) exactly, for every raster, 2-D kernel, mode and fill value.
C9_ConvolveIsCorrelateOfRotatedKernel ==
    op = "convolve" =>
        out = correlate(raster, Rot180(kernel), mode, cval, castNaN)

\* a successful convolve call with a kernel that differs from its rotation
C9_Witness ==
    /\ op = "convolve" /\ out.err = "none"
    /\ Rot180(kernel) # kernel
    /\ NRows(kernel.a) % 2 = 0

\* the reference convolution of band b at (r, c): the sum of K[s, t] times
\* the grid, extended per m, at (r + krows//2 - s, c + kcols//2 - t)
RefConvolve(rs, b, K, m, cv, r, c) ==
    LET krows == NRows(K)
        kcols == NCols(K)
    IN  SumSeq([ki \in 1 .. krows * kcols |->
            LET s == (ki - 1) \div kcols
                t == (ki - 1) % kcols
                sr == NdExtIdx(r + (krows \div 2) - s, NRows(rs.data[b]), m)
                sc == NdExtIdx(c + (kcols \div 2) - t, NCols(rs.data[b]), m)
            IN  IF sr = -1 \/ sc = -1 THEN FMul(K[s][t], cv)
                ELSE FMul(K[s][t], rs.data[b][sr][sc])])

NullFree(rs) ==
    \A b \in DOMAIN rs.mask : \A r \in DOMAIN rs.mask[b] :
        \A c \in DOMAIN rs.mask[b][r] : ~rs.mask[b][r][c]

\* C10: on a null-free raster convolve(kernel, mode=m) succeeds and equals,
\* band by band, the reference convolution with the grid extended per m, for
\* every m in {reflect, constant, nearest, mirror, wrap}.
C10_ConvolveMatchesReference ==
    (op = "convolve" /\ NullFree(raster) /\ mode \in Modes
     /\ check_kernel(kernel) = "none") =>
        /\ out.err = "none"
        /\ \A b \in DOMAIN raster.data :
            \A r \in DOMAIN raster.data[b] :
                \A c \in DOMAIN raster.data[b][r] :
                    out.val.data[b][r][c]
                    = RefConvolve(raster, b, kernel.a, mode, cval, r, c)

\* a kernel as the API accepts it: 2-dimensional and free of NaN
ValidKernel(k) ==
    /\ k.ndim = 2
    /\ \A i \in DOMAIN k.a : \A j \in DOMAIN k.a[i] : ~IsNaN(k.a[i][j])

\* the grid extended by hand: the index read for position i of an axis of
\* length n (an overshoot of at most n), -1 where the fill value is read
ManualExt(i, n, m) ==
    IF m = "constant" THEN (IF i < 0 \/ i > n - 1 THEN -1 ELSE i)
    ELSE IF m = "nearest" THEN (IF i < 0 THEN 0 ELSE IF i > n - 1 THEN n - 1 ELSE i)
    ELSE IF m = "reflect" THEN (IF i < 0 THEN -1 - i
                                ELSE IF i > n - 1 THEN 2 * n - 1 - i ELSE i)
    ELSE (IF i < 0 THEN i + n ELSE IF i > n - 1 THEN i - n ELSE i)

\* the weighted sum of the kernel laid over the hand-extended grid with its
\* reference cell at ((krows-1)//2, (kcols-1)//2)
ManualCorrelate(rs, b, K, m, cv, r, c) ==
    LET krows == NRows(K)
        kcols == NCols(K)
    IN  SumSeq([ki \in 1 .. krows * kcols |->
            LET i == (ki - 1) \div kcols
                j == (ki - 1) % kcols
                sr == ManualExt(r - ((krows - 1) \div 2) + i,
                                NRows(rs.data[b]), m)
                sc == ManualExt(c - ((kcols - 1) \div 2) + j,
                                NCols(rs.data[b]), m)
            IN  FMul(K[i][j], IF sr = -1 \/ sc = -1 THEN cv
                              ELSE rs.data[b][sr][sc])])

-----------------------------------------------------------------------------
(* SpecApi: one focal, correlate or convolve call on a two-band raster *)

\* band patterns: alternating 1 and 2, the same with a null first cell, and
\* an all-null band (NaN marks a null cell)
RampBand == [r \in 0 .. GridRows - 1 |-> [c \in 0 .. GridCols - 1 |->
                Num(1 + ((r + c) % 2))]]

OnesBand == [r \in 0 .. GridRows - 1 |-> [c \in 0 .. GridCols - 1 |-> Num(1)]]

NullFirstBand == [RampBand EXCEPT ![0][0] = NaN]

AllNullBand == [r \in 0 .. GridRows - 1 |-> [c \in 0 .. GridCols - 1 |-> NaN]]

\* the raster whose bands are the one-band rasters of the grids p1 and p2
MkRaster2(p1, p2, dtype, nv) ==
    [data |-> MkRaster(p1, dtype, nv).data \o MkRaster(p2, dtype, nv).data,
     mask |-> MkRaster(p1, dtype, nv).mask \o MkRaster(p2, dtype, nv).mask,
     dtype |-> dtype,
     nv |-> nv]

ApiRasters ==
    {MkRaster2(p1, p2, dt, <<>>) :
        p1 \in {RampBand, OnesBand}, p2 \in {RampBand, OnesBand},
        dt \in {"int", "float"}}
    \cup {MkRaster2(p1, p2, "int", <<IntNull>>) :
            p1 \in {RampBand, NullFirstBand, AllNullBand},
            p2 \in {RampBand, NullFirstBand, AllNullBand}}
    \cup {MkRaster2(p1, p2, "float", <<NaN>>) :
            p1 \in {RampBand, NullFirstBand, AllNullBand},
            p2 \in {RampBand, NullFirstBand, AllNullBand}}

InitApi ==
    /\ op = "init"
    /\ raster \in ApiRasters
    /\ castNaN \in (IF raster.dtype = "int" THEN NaNCasts ELSE {IntMin})
    /\ sample = <<>>
    /\ stat = "none"
    /\ window = NoWindow
    /\ kernel = <<>>
    /\ mode = "none"
    /\ cval = NaN
    /\ out = NoOut
    /\ scheduled = 0
    /\ chunks = <<>>
    /\ pending = {}
    /\ writes = <<>>
    /\ tile = <<>>
    /\ locals = <<>>
    /\ calls = 0
    /\ heap = <<>>

\* focal called with the keyword argument mode=m
FocalMode ==
    /\ op = "init"
    /\ \E st \in FocalTypeArgs, w \in FocalWindowArgs \cup BadWindowArgs,
          m \in Modes :
        /\ stat' = st
        /\ window' = w
        /\ mode' = m
        /\ out' = focal_with_mode(raster, st, w.width_or_radius, w.height, m,
                                  castNaN)
    /\ scheduled' = 0
    /\ op' = "focalmode"
    /\ UNCHANGED <<raster, castNaN, sample, kernel, cval>>
    /\ UNCHANGED tiling
    /\ UNCHANGED objects

NextApi == Focal \/ FocalMode \/ Correlate \/ Convolve

SpecApi == InitApi /\ [][NextApi]_vars

-----------------------------------------------------------------------------
(* SpecWindow: one get_focal_window call on arbitrary arguments *)

\* argument values: integers -1 .. MaxWin + 1 and floats 1.0 .. MaxWin.0
NumArgs == {I(v) : v \in -1 .. MaxWin + 1} \cup {F(v) : v \in 1 .. MaxWin}

\* a scalar, a list of up to two values, or the list [1, 2, 3]
WidthOrRadiusArgs ==
    {[seq |-> FALSE, vals |-> <<a>>] : a \in NumArgs}
    \cup {[seq |-> TRUE, vals |-> q] : q \in SeqsUpTo(NumArgs, 2)}
    \cup {[seq |-> TRUE, vals |-> <<I(1), I(2), I(3)>>]}

HeightArgs == {<<>>} \cup {<<a>> : a \in NumArgs}

InitWindow ==
    /\ op = "init"
    /\ window \in [width_or_radius : WidthOrRadiusArgs, height : HeightArgs]
    /\ raster = NoRaster
    /\ castNaN = 0
    /\ sample = <<>>
    /\ stat = "none"
    /\ kernel = <<>>
    /\ mode = "none"
    /\ cval = NaN
    /\ out = NoOut
    /\ scheduled = 0
    /\ chunks = <<>>
    /\ pending = {}
    /\ writes = <<>>
    /\ tile = <<>>
    /\ locals = <<>>
    /\ calls = 0
    /\ heap = <<>>

GetFocalWindow ==
    /\ op = "init"
    /\ out' = get_focal_window(window.width_or_radius, window.height)
    /\ op' = "window"
    /\ UNCHANGED <<raster, castNaN, sample, stat, window, kernel, mode, cval,
                   scheduled>>
    /\ UNCHANGED tiling
    /\ UNCHANGED objects

NextWindow == GetFocalWindow

SpecWindow == InitWindow /\ [][NextWindow]_vars

-----------------------------------------------------------------------------
(* Properties of get_focal_window *)

WR == window.width_or_radius

\* the call get_focal_window(r) with an integer r > 0
IsCircleCall ==
    /\ op = "window" /\ ~WR.seq /\ window.height = <<>>
    /\ WR.vals[1].ty = "int" /\ WR.vals[1].v > 0

\* the call get_focal_window((r1, r2)) with integers 0 < r1 < r2
IsAnnulusCall ==
    /\ op = "window" /\ WR.seq /\ Len(WR.vals) = 2 /\ window.height = <<>>
    /\ WR.vals[1].ty = "int" /\ WR.vals[2].ty = "int"
    /\ 0 < WR.vals[1].v /\ WR.vals[1].v < WR.vals[2].v

\* the call get_focal_window(width, height) with positive integers
IsRectangleCall ==
    /\ op = "window" /\ ~WR.seq /\ window.height # <<>>
    /\ WR.vals[1].ty = "int" /\ WR.vals[1].v > 0
    /\ window.height[1].ty = "int" /\ window.height[1].v > 0

\* (x - r + 1)^2 + (y - r + 1)^2 <= (r - 1)^2
InDisc(r, x, y) ==
    (x - r + 1) * (x - r + 1) + (y - r + 1) * (y - r + 1) <= (r - 1) * (r - 1)

HasShape(w, rows, cols) ==
    /\ DOMAIN w = 0 .. rows - 1
    /\ \A x \in DOMAIN w : DOMAIN w[x] = 0 .. cols - 1

\* C13: for every integer radius r > 0, get_focal_window(r) is the
\* (2r-1) x (2r-1) footprint whose cell (x, y) is true iff
\* (x-r+1)^2 + (y-r+1)^2 <= (r-1)^2; r = 1 gives the single true cell and
\* r = 2 the 3x3 plus shape.
C13_CircleFootprint ==
    IsCircleCall =>
        LET r == WR.vals[1].v
        IN  /\ out.err = "none"
            /\ HasShape(out.val, 2 * r - 1, 2 * r - 1)
            /\ \A x \in 0 .. 2 * r - 2 : \A y \in 0 .. 2 * r - 2 :
                out.val[x][y] <=> InDisc(r, x, y)
            /\ r = 1 => out.val = [x \in {0} |-> [y \in {0} |-> TRUE]]
            /\ r = 2 => out.val = [x \in 0 .. 2 |-> [y \in 0 .. 2 |->
                                      x = 1 \/ y = 1]]

\* the call get_focal_window(2), whose corner cells are false and whose
\* edge midpoints are true
C13_Witness ==
    /\ IsCircleCall /\ WR.vals[1].v = 2 /\ out.err = "none"
    /\ out.val[0][1] /\ ~out.val[0][0]

\* C14: for every radius pair r1 < r2, get_focal_window((r1, r2)) is the
\* (2 r2 - 1) x (2 r2 - 1) footprint circle(r2) with the centred, zero-padded
\* circle(r1) removed: a cell is true iff it is in circle(r2) and not in the
\* padded circle(r1).
C14_AnnulusFootprint ==
    IsAnnulusCall =>
        LET r1 == WR.vals[1].v
            r2 == WR.vals[2].v
            p == r2 - r1
            InPadded(x, y) ==
                /\ (x - p) \in 0 .. 2 * r1 - 2
                /\ (y - p) \in 0 .. 2 * r1 - 2
                /\ InDisc(r1, x - p, y - p)
        IN  /\ out.err = "none"
            /\ HasShape(out.val, 2 * r2 - 1, 2 * r2 - 1)
            /\ \A x \in 0 .. 2 * r2 - 2 : \A y \in 0 .. 2 * r2 - 2 :
                /\ InPadded(x, y) => ~out.val[x][y]
                /\ out.val[x][y] => InDisc(r2, x, y)
                /\ (InDisc(r2, x, y) /\ ~InPadded(x, y)) => out.val[x][y]

\* the call get_focal_window((2, 3)): the centre and its four neighbours are
\* cleared, the tip of the outer circle stays
C14_Witness ==
    /\ IsAnnulusCall /\ WR.vals[1].v = 2 /\ WR.vals[2].v = 3
    /\ out.err = "none"
    /\ ~out.val[2][2] /\ ~out.val[1][2] /\ out.val[0][2] /\ out.val[1][1]

\* C15: for all positive integers width and height,
\* get_focal_window(width, height) is all true with first axis of length
\* width and second axis of length height.
C15_RectangleFootprint ==
    IsRectangleCall =>
        /\ out.err = "none"
        /\ HasShape(out.val, WR.vals[1].v, window.height[1].v)
        /\ \A x \in DOMAIN out.val : \A y \in DOMAIN out.val[x] : out.val[x][y]

\* a rectangle call with width 1 and height 2
C15_Witness ==
    /\ IsRectangleCall /\ WR.vals[1].v = 1 /\ window.height[1].v = 2
    /\ out.err = "none"
    /\ NRows(out.val) = 1 /\ NCols(out.val) = 2

\* the values of the footprint spec of the call, height included
SpecValues ==
    {WR.vals[i] : i \in DOMAIN WR.vals}
    \cup {window.height[i] : i \in DOMAIN window.height}

\* the defects of a footprint spec for which an error of kind ValueError is
\* stated
HasValueDefect ==
    \/ \E a \in SpecValues : a.ty = "int" /\ a.v <= 0
    \/ WR.seq /\ Len(WR.vals) # 2
    \/ WR.seq /\ Len(WR.vals) = 2 /\ WR.vals[1].v >= WR.vals[2].v
    \/ WR.seq /\ Len(WR.vals) = 2 /\ window.height # <<>>

HasTypeDefect == \E a \in SpecValues : a.ty # "int"

\* C16: get_focal_window returns no footprint and raises for every invalid
\* footprint spec: TypeError whenever a radius, width or height value is not
\* an integer, and ValueError when an integer value is <= 0, a pair has
\* r1 >= r2, a sequence does not have exactly two values or a height comes
\* with a radius pair.
C16_InvalidSpecRaises ==
    op = "window" =>
        /\ HasTypeDefect => (out.err = "TypeError" /\ out.val = <<>>)
        /\ (HasValueDefect /\ ~HasTypeDefect) =>
                (out.err = "ValueError" /\ out.val = <<>>)

\* the error of the first failing check, the checks taken in the order:
\* sequence length, r1 >= r2, each radius/width value in turn (integer, then
\* positive), height with a pair, height integer, height positive
FirstFailingCheck ==
    LET n == Len(WR.vals)
        BadAt(i) == WR.vals[i].ty # "int" \/ WR.vals[i].v <= 0
    IN  IF WR.seq /\ n # 2 THEN "ValueError"
        ELSE IF WR.seq /\ WR.vals[1].v >= WR.vals[2].v THEN "ValueError"
        ELSE IF \E i \in 1 .. n : BadAt(i)
            THEN LET i == CHOOSE i \in 1 .. n :
                            BadAt(i) /\ \A j \in 1 .. (i - 1) : ~BadAt(j)
                 IN  IF WR.vals[i].ty # "int" THEN "TypeError"
                     ELSE "ValueError"
        ELSE IF window.height = <<>> THEN "none"
        ELSE IF n = 2 THEN "ValueError"
        ELSE IF window.height[1].ty # "int" THEN "TypeError"
        ELSE IF window.height[1].v <= 0 THEN "ValueError"
        ELSE "none"

\* a one-cell raster on which focal is called with the footprint spec
ProbeRaster ==
    MkRaster([r \in {0} |-> [c \in {0} |-> Num(1)]], "float", <<>>)

\* C16 (amended): get_focal_window, and focal through it, returns no
\* footprint and raises for every invalid footprint spec, with the error of
\* the first failing check: a spec whose only defect is a non-integer value
\* raises TypeError, and a spec with several defects raises the error of the
\* earliest check it fails.
C16_FirstFailingCheckDecides ==
    op = "window" =>
        /\ out.err = FirstFailingCheck
        /\ (HasTypeDefect \/ HasValueDefect) <=> out.err # "none"
        /\ out.err # "none" => out.val = <<>>
        /\ (HasTypeDefect /\ ~HasValueDefect) => out.err = "TypeError"
        /\ focal(ProbeRaster, "max", WR, window.height, 0).err = out.err

\* the call get_focal_window((2.0, 1)): a non-integer value in a pair with
\* r1 >= r2 raises ValueError
C16_Witness ==
    /\ op = "window" /\ WR.seq
    /\ WR.vals = <<F(2), I(1)>> /\ window.height = <<>>
    /\ out.err = "ValueError"

\* the call get_focal_window(...) returned a footprint
ReturnedFootprint == op = "window" /\ out.err = "none"

\* C23: for every footprint shape (rows, cols >= 1) the halo planner returns
\* the offsets ((rows-1)//2, rows//2), ((cols-1)//2, cols//2), with
\* top + bottom + 1 = rows and left + right + 1 = cols, and the symmetric pad
\* depth (max(top, bottom), max(left, right)) exceeds the smaller offset of
\* each axis by at most one.
C23_HaloOffsets ==
    ReturnedFootprint =>
        LET rows == NRows(out.val)
            cols == NCols(out.val)
            offsets == _get_offsets(<<rows, cols>>)
            depth == PadDepth(offsets)
        IN  /\ rows >= 1 /\ cols >= 1
            /\ offsets = <<<<(rows - 1) \div 2, rows \div 2>>,
                           <<(cols - 1) \div 2, cols \div 2>>>>
            /\ offsets[1][1] + offsets[1][2] + 1 = rows
            /\ offsets[2][1] + offsets[2][2] + 1 = cols
            /\ depth[1] = Max(offsets[1][1], offsets[1][2])
            /\ depth[2] = Max(offsets[2][1], offsets[2][2])
            /\ \A axis \in {1, 2} : \A side \in {1, 2} :
                   depth[axis] - offsets[axis][side] \in {0, 1}

\* a 2 x 1 footprint: offsets (0, 1), (0, 0), pad depth (1, 0)
C23_Witness ==
    /\ ReturnedFootprint
    /\ NRows(out.val) = 2 /\ NCols(out.val) = 1
    /\ _get_offsets(<<2, 1>>) = <<<<0, 1>>, <<0, 0>>>>
    /\ PadDepth(_get_offsets(<<2, 1>>)) = <<1, 0>>

\* C29: every footprint returned by get_focal_window for a valid spec is
\* 2-dimensional with both dimensions >= 1 and has at least one true cell.
C29_FootprintNotEmpty ==
    ReturnedFootprint =>
        /\ NRows(out.val) >= 1 /\ NCols(out.val) >= 1
        /\ HasShape(out.val, NRows(out.val), NCols(out.val))
        /\ \A x \in DOMAIN out.val : \A y \in DOMAIN out.val[x] :
               out.val[x][y] \in BOOLEAN
        /\ \E x \in DOMAIN out.val : \E y \in DOMAIN out.val[x] :
               out.val[x][y]

\* the annulus (1, 2): the centre is cleared, the four arms stay true
C29_Witness ==
    /\ IsAnnulusCall /\ out.err = "none"
    /\ WR.vals[1].v = 1 /\ WR.vals[2].v = 2
    /\ ~out.val[1][1] /\ out.val[0][1]

-----------------------------------------------------------------------------
(* Properties of the entry points on two-band rasters *)

\* the values the reference neighbourhood filter reads for cell (r, c) of
\* band b: the true offsets of footprint W over the grid extended per m
\* (fill value 0 in constant mode)
RefNeighbourhood(rs, b, W, m, r, c) ==
    LET krows == NRows(W)
        kcols == NCols(W)
        on == SelectSeq([ki \in 1 .. krows * kcols |-> ki],
                        LAMBDA ki : W[(ki - 1) \div kcols][(ki - 1) % kcols])
    IN  [n \in 1 .. Len(on) |->
            LET i == (on[n] - 1) \div kcols
                j == (on[n] - 1) % kcols
                sr == NdExtIdx(r - ((krows - 1) \div 2) + i,
                               NRows(rs.data[b]), m)
                sc == NdExtIdx(c - ((kcols - 1) \div 2) + j,
                               NCols(rs.data[b]), m)
            IN  IF sr = -1 \/ sc = -1 THEN Num(0) ELSE rs.data[b][sr][sc]]

\* C12: for a null-free raster, focal with statistic max, min, median, sum
\* or mean, a circle or rectangle footprint and a caller-chosen edge mode m
\* in {reflect, constant, nearest, mirror, wrap} equals, band by band, the
\* reference neighbourhood filter over the footprint with the grid extended
\* per m.
C12_FocalHonoursEdgeMode ==
    (op = "focalmode" /\ NullFree(raster)
     /\ stat \in {"max", "min", "median", "sum", "mean"}
     /\ FirstFailingCheck = "none" /\ ~WR.seq
     /\ mode \in {"reflect", "constant", "nearest", "mirror", "wrap"}) =>
        /\ out.err = "none"
        /\ \A b \in DOMAIN raster.data :
            \A r \in DOMAIN raster.data[b] :
                \A c \in DOMAIN raster.data[b][r] :
                    out.val.data[b][r][c]
                    = AggFunc(stat, RefNeighbourhood(raster, b, CallWindow,
                                                     mode, r, c))

\* the eleven statistic names of the catalogue
KnownStats ==
    {"min", "max", "mean", "median", "mode", "sum", "std", "var", "unique",
     "entropy", "asm"}

\* the call recorded in the state has an unknown statistic name, an unknown
\* edge mode, a malformed kernel or a malformed footprint spec
InvalidCall ==
    \/ /\ op = "focal"
       /\ (stat \notin KnownStats \/ FirstFailingCheck # "none")
    \/ /\ op \in {"correlate", "convolve"}
       /\ \/ mode \notin {"reflect", "nearest", "wrap", "constant"}
          \/ ~ValidKernel(kernel)

\* C17: in focal, correlate and convolve an unknown statistic name, an
\* unknown edge mode, a malformed kernel or a malformed footprint spec is
\* rejected with an error before the tile computation of any band is
\* scheduled, and no output raster or partial result is produced.
C17_RejectedBeforeAnyTileWork ==
    InvalidCall =>
        /\ out.err \in {"ValueError", "TypeError"}
        /\ out.val = <<>>
        /\ scheduled = 0

\* a correlate call on a two-band raster with a valid kernel and the
\* unknown mode "mirror", which only the band loop's _correlate rejects
C17_Witness ==
    /\ op = "correlate" /\ Len(raster.data) = 2
    /\ ValidKernel(kernel) /\ mode = "mirror"
    /\ out.err = "ValueError" /\ scheduled = 0

\* C18: correlate, convolve and check_kernel reject every kernel that is not
\* 2-dimensional and every kernel holding a NaN weight with a ValueError,
\* and accept every NaN-free 2-D kernel.
C18_KernelValidation ==
    op \in {"correlate", "convolve"} =>
        /\ ~ValidKernel(kernel) =>
                (out.err = "ValueError" /\ check_kernel(kernel) = "ValueError")
        /\ ValidKernel(kernel) =>
                /\ check_kernel(kernel) = "none"
                /\ mode \in {"reflect", "nearest", "wrap", "constant"}
                        => out.err = "none"

\* a convolve call with a 2-D kernel that holds a NaN weight
C18_Witness ==
    /\ op = "convolve" /\ kernel.ndim = 2 /\ ~ValidKernel(kernel)
    /\ out.err = "ValueError"

NoUninit(a) == \A r \in DOMAIN a : \A c \in DOMAIN a[r] : a[r][c] # Uninit

\* C19: the tile kernel's result for a padded tile, its halo stripped, has
\* the band's shape and holds a computed value in every cell, and focal,
\* correlate and convolve return a raster of exactly the input's
\* (band, row, col) shape.
C19_OutputShape ==
    (op \in {"focal", "correlate", "convolve"} /\ out.err = "none") =>
        /\ Len(out.val.data) = Len(raster.data)
        /\ \A b \in DOMAIN raster.data :
            /\ HasShape(out.val.data[b], NRows(raster.data[b]),
                        NCols(raster.data[b]))
            /\ NoUninit(out.val.data[b])
            /\ (op = "focal" /\ UsesTileKernel) =>
                LET t == FocalDispatch(FocalEncode(raster).data[b], TileDtype,
                                       CallWindow, stat, NaNBoundary, castNaN)
                IN  /\ HasShape(t, NRows(raster.data[b]),
                                NCols(raster.data[b]))
                    /\ NoUninit(t)

\* a focal call through the tile kernel with the 3x3 circle footprint (halo
\* of one cell) on a two-band raster
C19_Witness ==
    /\ FocalDone /\ UsesTileKernel /\ Len(raster.data) = 2
    /\ NRows(CallWindow) = 3
    /\ NCols(out.val.data[2]) = NCols(raster.data[2])

\* the result of repeating the recorded call on raster rs
SameCallOn(rs) ==
    CASE op = "focal" ->
            focal(rs, stat, window.width_or_radius, window.height, castNaN)
      [] op = "correlate" -> correlate(rs, kernel, mode, cval, castNaN)
      [] op = "convolve" -> convolve(rs, kernel, mode, cval, castNaN)

\* C20: output band b is determined only by input band b and its mask band:
\* every raster that agrees with the input on band b yields the same output
\* band b under the same call, whatever its other bands hold.
C20_BandsIndependent ==
    (op \in {"focal", "correlate", "convolve"} /\ out.err = "none") =>
        \A b \in DOMAIN raster.data :
            \A rs2 \in ApiRasters :
                (/\ rs2 # raster
                 /\ rs2.dtype = raster.dtype /\ rs2.nv = raster.nv
                 /\ rs2.data[b] = raster.data[b]
                 /\ rs2.mask[b] = raster.mask[b]) =>
                    /\ SameCallOn(rs2).err = "none"
                    /\ SameCallOn(rs2).val.data[b] = out.val.data[b]

\* a focal call on a masked two-band raster whose bands have different null
\* cells and whose second band's result holds a number
C20_Witness ==
    /\ FocalDone /\ _masked(raster) /\ Len(raster.data) = 2
    /\ raster.mask[1] # raster.mask[2]
    /\ NRows(CallWindow) = 3
    /\ \E c \in DOMAIN raster.data[2][0] : ~IsNaN(out.val.data[2][0][c])

-----------------------------------------------------------------------------
(* SpecTiles: the tiles of one band, processed one at a time in any order.   *)
(* The call (focal through _focal_chunk, or the null-aware correlate) and    *)
(* the chunking of the band are fixed at the start; every step runs the      *)
(* chunk function on one padded tile and stores its trimmed result           *)

\* every way to split an axis of length n into consecutive chunks
RECURSIVE Splits(_)
Splits(n) ==
    IF n = 0 THEN {<<>>}
    ELSE UNION {{<<k>> \o s : s \in Splits(n - k)} : k \in 1 .. n}

Chunkings == [rows : Splits(GridRows), cols : Splits(GridCols)]

\* the first index of chunk i of an axis chunked as cs
RECURSIVE ChunkStart(_, _)
ChunkStart(cs, i) == IF i = 1 THEN 0 ELSE ChunkStart(cs, i - 1) + cs[i - 1]

TilesOf(ch) == (1 .. Len(ch.rows)) \X (1 .. Len(ch.cols))

\* whether the cell (r, c) of the band lies in tile t
InTile(ch, t, r, c) ==
    /\ r - ChunkStart(ch.rows, t[1]) \in 0 .. ch.rows[t[1]] - 1
    /\ c - ChunkStart(ch.cols, t[2]) \in 0 .. ch.cols[t[2]] - 1

\* a tile padded on its own, as if it were the whole band
TileOverlapOwnBoundary(data, dtype, ch, t, rpad, cpad, boundary, g) ==
    LET r0 == ChunkStart(ch.rows, t[1])
        c0 == ChunkStart(ch.cols, t[2])
        own == [i \in 0 .. ch.rows[t[1]] - 1 |-> [j \in 0 .. ch.cols[t[2]] - 1 |->
                  data[r0 + i][c0 + j]]]
    IN  Overlap(own, dtype, rpad, cpad, boundary, g)

\* the padded tile map_overlap hands to the chunk function for tile t: the
\* tile's cells and a halo of depth (rpad, cpad) taken from the neighbouring
\* tiles and, at the edge of the band, from the boundary extension
TileOverlap(data, dtype, ch, t, rpad, cpad, boundary, g) ==
    LET ext == Overlap(data, dtype, rpad, cpad, boundary, g)
        r0 == ChunkStart(ch.rows, t[1])
        c0 == ChunkStart(ch.cols, t[2])
    IN  [i \in 0 .. ch.rows[t[1]] + 2 * rpad - 1 |->
            [j \in 0 .. ch.cols[t[2]] + 2 * cpad - 1 |-> ext[r0 + i][c0 + j]]]

\* one-band rasters whose cells all differ, with and without a null cell
CountBand == [r \in 0 .. GridRows - 1 |-> [c \in 0 .. GridCols - 1 |->
                Num(1 + r * GridCols + c)]]

NullLastBand == [CountBand EXCEPT ![GridRows - 1][GridCols - 1] = NaN]

TileRasters ==
    {MkRaster(CountBand, dt, <<>>) : dt \in {"int", "float"}}
    \cup {MkRaster(p, "int", <<IntNull>>) : p \in {CountBand, NullLastBand}}
    \cup {MkRaster(p, "float", <<NaN>>) : p \in {CountBand, NullLastBand}}

\* what _focal_dask_map is called with: the band, its dtype, the kernel or
\* footprint and the boundary
TileCall ==
    IF op = "focal"
    THEN [data |-> FocalEncode(raster).data[1], dtype |-> TileDtype,
          kern |-> CallWindow, boundary |-> NaNBoundary]
    ELSE [data |-> CorrelateEncode(raster, kernel).data[1], dtype |-> "float",
          kern |-> kernel.a,
          boundary |-> [kind |-> _MODE_TO_DASK_BOUNDARY[mode], value |-> cval]]

\* the halo depth of the call
TileDepth == PadDepth(_get_offsets(<<NRows(TileCall.kern), NCols(TileCall.kern)>>))

\* the padded tile of tile t
PaddedTile(t) ==
    TileOverlap(TileCall.data, TileCall.dtype, chunks, t, TileDepth[1],
                TileDepth[2], TileCall.boundary, castNaN)

\* chunk_func of _focal_dispatch on a padded tile
ChunkFunc(padded) ==
    IF op = "focal"
    THEN _focal_chunk(padded, TileCall.dtype, TileCall.kern, stat, castNaN)
    ELSE _correlate2d_chunk(padded, TileCall.kern)

Blank == [r \in 0 .. GridRows - 1 |-> [c \in 0 .. GridCols - 1 |-> Uninit]]

\* map_overlap rechunks a band whose chunks are smaller than the halo depth,
\* so the tiles it processes are at least as large as the depth
InitTiles ==
    /\ raster \in TileRasters
    /\ castNaN \in (IF raster.dtype = "int" THEN NaNCasts ELSE {IntMin})
    /\ sample = <<>>
    /\ scheduled = 1
    /\ \/ /\ op = "focal"
          /\ stat \in FOCAL_STATS
          /\ window \in FocalWindowArgs
          /\ _masked(raster) \/ stat \notin {"min", "max", "sum"}
          /\ kernel = <<>> /\ mode = "none" /\ cval = NaN
       \/ /\ op = "correlate"
          /\ _masked(raster)
          /\ stat = "none" /\ window = NoWindow
          /\ kernel \in Kernels
          /\ mode \in _VALID_CORRELATE_MODES
          /\ cval \in (IF mode = "constant" THEN CVals ELSE {Num(0)})
    /\ chunks \in {ch \in Chunkings :
                     /\ \A i \in DOMAIN ch.rows : ch.rows[i] >= TileDepth[1]
                     /\ \A j \in DOMAIN ch.cols : ch.cols[j] >= TileDepth[2]}
    /\ pending = TilesOf(chunks)
    /\ out = Ok(Blank)
    /\ writes = [r \in 0 .. GridRows - 1 |-> [c \in 0 .. GridCols - 1 |-> 0]]
    /\ tile = <<>>
    /\ locals = <<>>
    /\ calls = 0
    /\ heap = <<>>

\* the trimmed result of tile t is stored into the output band
StoreTile(t) ==
    LET res == Trim(ChunkFunc(PaddedTile(t)), TileDepth[1], TileDepth[2])
        r0 == ChunkStart(chunks.rows, t[1])
        c0 == ChunkStart(chunks.cols, t[2])
    IN  /\ out' = Ok([r \in 0 .. GridRows - 1 |-> [c \in 0 .. GridCols - 1 |->
                        IF InTile(chunks, t, r, c) THEN res[r - r0][c - c0]
                        ELSE out.val[r][c]]])
        /\ writes' = [r \in 0 .. GridRows - 1 |-> [c \in 0 .. GridCols - 1 |->
                        IF InTile(chunks, t, r, c) THEN writes[r][c] + 1
                        ELSE writes[r][c]]]
        /\ pending' = pending \ {t}
        /\ UNCHANGED <<op, raster, castNaN, sample, stat, window, kernel, mode,
                       cval, scheduled, chunks, tile, locals, calls, heap>>

FocalTile == op = "focal" /\ \E t \in pending : StoreTile(t)

CorrelateTile == op = "correlate" /\ \E t \in pending : StoreTile(t)

NextTiles == FocalTile \/ CorrelateTile

SpecTiles == InitTiles /\ [][NextTiles]_vars

-----------------------------------------------------------------------------
(* Properties of the tiling *)

\* the band processed as one single tile with the same boundary extension
SingleTile ==
    IF op = "focal"
    THEN FocalDispatch(TileCall.data, TileCall.dtype, TileCall.kern, stat,
                       TileCall.boundary, castNaN)
    ELSE CorrelateDispatch(TileCall.data, TileCall.dtype, TileCall.kern,
                           TileCall.boundary, castNaN)

\* C22: for every decomposition of the grid into tiles and every order of
\* tile processing, the stitched focal or null-aware correlate output equals
\* processing the whole grid as one single tile with the same boundary
\* extension.
C22_TilingIndependent ==
    op \in {"focal", "correlate"} =>
        LET whole == SingleTile
        IN  \A r \in 0 .. GridRows - 1 : \A c \in 0 .. GridCols - 1 :
                IF \E t \in pending : InTile(chunks, t, r, c)
                THEN writes[r][c] = 0 /\ out.val[r][c] = Uninit
                ELSE writes[r][c] = 1 /\ out.val[r][c] = whole[r][c]

\* a band cut into two tiles, the right one processed first, under a
\* footprint that reads across the cut
C22_Witness ==
    /\ op = "focal" /\ chunks.cols = <<1, 1>>
    /\ pending = {<<1, 1>>}
    /\ TileDepth[2] = 1
    /\ out.val[0][1] = SingleTile[0][1]
    /\ out.val[0][1] # raster.data[1][0][1]

\* C24: for every padded tile shape and kernel shape, each read
\* chunk[kr, kc] by _focal_chunk and _correlate2d_chunk satisfies
\* 0 <= kr < rows and 0 <= kc < cols, and the flat kernel index ki stays in
\* [0, kernel.size) and reaches kernel.size exactly at the end of each
\* cell's scan.
C24_ScanStaysInBounds ==
    op \in {"focal", "correlate"} =>
        \A t \in TilesOf(chunks) :
            LET rows == chunks.rows[t[1]] + 2 * TileDepth[1]
                cols == chunks.cols[t[2]] + 2 * TileDepth[2]
                krows == NRows(TileCall.kern)
                kcols == NCols(TileCall.kern)
            IN  /\ (pending = TilesOf(chunks)) =>
                       (NRows(PaddedTile(t)) = rows /\ NCols(PaddedTile(t)) = cols)
                /\ \A cell \in InteriorCells(rows, cols, krows, kcols) :
                       LET scan == FootprintScan(krows, kcols, cell[1], cell[2])
                       IN  /\ \A n \in 1 .. Len(scan) :
                                  /\ 0 <= scan[n].kr /\ scan[n].kr < rows
                                  /\ 0 <= scan[n].kc /\ scan[n].kc < cols
                                  /\ 0 <= scan[n].ki
                                  /\ scan[n].ki < krows * kcols
                           /\ Len(scan) = krows * kcols

\* a processed 1 x 1 tile under a 3 x 3 footprint: the scan of its one
\* interior cell reads all nine cells of the 3 x 3 padded tile
C24_Witness ==
    /\ op = "focal" /\ chunks.cols = <<1, 1>> /\ <<1, 1>> \notin pending
    /\ NRows(TileCall.kern) = 3 /\ NCols(TileCall.kern) = 3
    /\ InteriorCells(3, 3, 3, 3) = {<<1, 1>>}
    /\ {<<FootprintScan(3, 3, 1, 1)[n].kr, FootprintScan(3, 3, 1, 1)[n].kc>> :
            n \in 1 .. 9} = (0 .. 2) \X (0 .. 2)

-----------------------------------------------------------------------------
(* SpecPrange: the parallel cell loop of _correlate2d_chunk on one padded    *)
(* tile.  An iteration first accumulates v from the tile and the kernel and  *)
(* then stores it; the iterations run in any order and overlap in time       *)

\* an accumulator shared by all iterations
StoreShared(vs, cell, v) == [x \in DOMAIN vs \cup {cell} |-> v]

\* v is assigned in the loop body before it is read (line 193), so every
\* iteration has its own
StoreLocal(vs, cell, v) ==
    [x \in DOMAIN vs \cup {cell} |-> IF x = cell THEN v ELSE vs[x]]

\* np.empty_like(chunk)
EmptyLike(a) == [r \in DOMAIN a |-> [c \in DOMAIN a[r] |-> Uninit]]

InitPrange ==
    /\ op = "prange"
    /\ raster \in {rs \in TileRasters : _masked(rs)}
    /\ castNaN = IntMin
    /\ sample = <<>>
    /\ stat = "none"
    /\ window = NoWindow
    /\ kernel \in Kernels
    /\ mode \in _VALID_CORRELATE_MODES
    /\ cval \in (IF mode = "constant" THEN CVals ELSE {Num(0)})
    /\ scheduled = 1
    /\ chunks = [rows |-> <<GridRows>>, cols |-> <<GridCols>>]
    /\ tile = PaddedTile(<<1, 1>>)
    /\ out = Ok(EmptyLike(tile))
    /\ pending = InteriorCells(NRows(tile), NCols(tile), NRows(kernel.a),
                               NCols(kernel.a))
    /\ writes = [r \in DOMAIN tile |-> [c \in DOMAIN tile[r] |-> 0]]
    /\ locals = <<>>
    /\ calls = 0
    /\ heap = <<>>

\* an iteration starts and accumulates its v (lines 192-199)
BeginIteration ==
    /\ op = "prange"
    /\ \E cell \in pending :
        /\ locals' = StoreLocal(locals, cell,
                                CorrelateCell(tile, kernel.a, cell[1], cell[2]))
        /\ pending' = pending \ {cell}
    /\ UNCHANGED <<op, raster, castNaN, sample, stat, window, kernel, mode,
                   cval, out, scheduled, chunks, writes, tile, calls, heap>>

\* an iteration stores its v: out[r, c] = v (line 200)
EndIteration ==
    /\ op = "prange"
    /\ \E cell \in DOMAIN locals :
        /\ out' = Ok([out.val EXCEPT ![cell[1]][cell[2]] = locals[cell]])
        /\ writes' = [writes EXCEPT ![cell[1]][cell[2]] = @ + 1]
        /\ locals' = [x \in DOMAIN locals \ {cell} |-> locals[x]]
    /\ UNCHANGED <<op, raster, castNaN, sample, stat, window, kernel, mode,
                   cval, scheduled, chunks, pending, tile, calls, heap>>

NextPrange == BeginIteration \/ EndIteration

SpecPrange == InitPrange /\ [][NextPrange]_vars

\* the interior cells of the tile
PrangeCells ==
    InteriorCells(NRows(tile), NCols(tile), NRows(kernel.a), NCols(kernel.a))

\* C27: in the parallel correlation tile kernel every interior output cell
\* is written exactly once and only by the iteration for that cell, no
\* iteration writes the input tile, the kernel or a variable another
\* iteration reads, and so the result is the same for every interleaving of
\* the iterations: a cell holds, once its iteration is over, the value the
\* sequential loop gives it, and is untouched until then.
C27_IterationsIndependent ==
    op = "prange" =>
        /\ tile = PaddedTile(<<1, 1>>)
        /\ \A cell \in DOMAIN locals :
               locals[cell] = CorrelateCell(tile, kernel.a, cell[1], cell[2])
        /\ LET sequential == _correlate2d_chunk(tile, kernel.a)
           IN  \A r \in DOMAIN tile : \A c \in DOMAIN tile[r] :
                   IF <<r, c>> \in PrangeCells
                      /\ <<r, c>> \notin pending \cup DOMAIN locals
                   THEN writes[r][c] = 1 /\ out.val[r][c] = sequential[r][c]
                   ELSE writes[r][c] = 0 /\ out.val[r][c] = Uninit

\* a 1 x 2 kernel on a 1 x 4 padded tile: the iteration of the cell (0, 2)
\* has stored its value while the iteration of the cell (0, 1) is still
\* under way with a different value
C27_Witness ==
    /\ op = "prange" /\ kernel = RampKernel(1, 2, "float")
    /\ NCols(tile) = 4
    /\ <<0, 1>> \in DOMAIN locals
    /\ writes[0][2] = 1
    /\ locals[<<0, 1>>] # out.val[0][2]

-----------------------------------------------------------------------------
(* Raster methods (raster_tools/raster.py): set_null_value, burn_mask,       *)
(* astype, round and load on a Raster [data, mask, dtype, nv].  A scalar     *)
(* argument is [ty, v]: its Python type and its value; None is <<>>          *)

None == <<>>

\* da.where(mask, value, data) on the bands of a raster, stored with dtype
WhereMask(mask, value, data, dtype, g) ==
    [b \in DOMAIN data |-> [r \in DOMAIN data[b] |->
        [c \in DOMAIN data[b][r] |->
            IF mask[b][r][c] THEN CastTo(dtype, value, g) ELSE data[b][r][c]]]]

\* Raster.burn_mask(): null-masked cells are filled with the null value
burn_mask(rs, g) ==
    IF ~_masked(rs) THEN rs
    ELSE [rs EXCEPT !.data = WhereMask(rs.mask, rs.nv[1], rs.data, rs.dtype, g)]

\* "If the raster has an integer dtype and `value` is a float, the dtype
\* will be promoted to a float dtype"
should_promote_to_fit(dtype, value) ==
    value # None /\ dtype = "int" /\ value.ty = "float"

\* Raster.set_null_value(value)
set_null_value(rs, value, g) ==
    IF value = None
    THEN [data |-> burn_mask(rs, g).data,
          mask |-> [b \in DOMAIN rs.mask |-> [r \in DOMAIN rs.mask[b] |->
                      [c \in DOMAIN rs.mask[b][r] |-> FALSE]]],
          dtype |-> rs.dtype,
          nv |-> None]
    ELSE LET dt == IF should_promote_to_fit(rs.dtype, value)
                   THEN promote_dtype_to_float(rs.dtype) ELSE rs.dtype
             xrs == [b \in DOMAIN rs.data |-> AsType(rs.data[b], dt, g)]
             temp_mask == [b \in DOMAIN xrs |-> [r \in DOMAIN xrs[b] |->
                             [c \in DOMAIN xrs[b][r] |->
                                 IF IsNaN(value.v) THEN IsNaN(xrs[b][r][c])
                                 ELSE xrs[b][r][c] = value.v]]]
             mask == IF _masked(rs)
                     THEN [b \in DOMAIN xrs |-> [r \in DOMAIN xrs[b] |->
                             [c \in DOMAIN xrs[b][r] |->
                                 rs.mask[b][r][c] \/ temp_mask[b][r][c]]]]
                     ELSE temp_mask
         IN  burn_mask([data |-> xrs, mask |-> mask, dtype |-> dt,
                        nv |-> <<value.v>>], g)

\* get_default_null_value(dtype): a fixed value of the dtype
get_default_null_value(dtype) == IF dtype = "int" THEN Num(-99) ELSE NaN

\* reconcile_nullvalue_with_dtype(nv, dtype): the null value cast to the
\* dtype, or the dtype's default null value if it cannot be cast safely
reconcile_nullvalue_with_dtype(nv, dtype) ==
    IF dtype = "float" THEN nv
    ELSE IF ~IsNaN(nv) /\ Len(nv) = 2 /\ nv[2] = 1 THEN nv
    ELSE get_default_null_value(dtype)

\* Raster.astype(dtype)
astype(rs, dtype, g) ==
    IF dtype = rs.dtype THEN rs
    ELSE LET xrs == [b \in DOMAIN rs.data |-> AsType(rs.data[b], dtype, g)]
             nv == IF _masked(rs)
                   THEN reconcile_nullvalue_with_dtype(rs.nv[1], dtype)
                   ELSE NaN
             \* nv != self.null_value, which is true of NaN and NaN
             changed == _masked(rs) /\ (IsNaN(nv) \/ nv # rs.nv[1])
         IN  [data |-> IF changed
                       THEN WhereMask(rs.mask, nv, xrs, dtype, g) ELSE xrs,
              mask |-> rs.mask,
              dtype |-> dtype,
              nv |-> IF changed THEN <<nv>> ELSE rs.nv]

\* numpy.round to 0 decimals: to the nearest integer, halves to the even one
FRound(v) ==
    IF IsNaN(v) \/ Len(v) = 3 THEN v
    ELSE LET q == v[1] \div v[2]
             rem == v[1] - q * v[2]
         IN  IF 2 * rem < v[2] THEN Num(q)
             ELSE IF 2 * rem > v[2] THEN Num(q + 1)
             ELSE IF q % 2 = 0 THEN Num(q) ELSE Num(q + 1)

\* Raster.round()
round(rs, g) ==
    LET rounded == [b \in DOMAIN rs.data |-> [r \in DOMAIN rs.data[b] |->
                      [c \in DOMAIN rs.data[b][r] |-> FRound(rs.data[b][r][c])]]]
    IN  [rs EXCEPT !.data = IF _masked(rs)
                            THEN WhereMask(rs.mask, rs.nv[1], rounded,
                                           rs.dtype, g)
                            ELSE rounded]

\* Raster.load(): the computed raster, with the same content
load(rs) == rs

-----------------------------------------------------------------------------
(* SpecChain: a chain of calls, each made on the result of the one before *)

\* the longest chain of calls
MaxCalls == 2

\* masked rasters as the constructor leaves them: null cells hold the null
\* value
ChainRasters == {rs \in TileRasters : _masked(rs)}

NullValueArgs == {[ty |-> "int", v |-> Num(1)], [ty |-> "float", v |-> NaN]}

ChainStats == {"max", "mean", "sum", "mode"}

ChainKernels == {RampKernel(1, 2, dt) : dt \in {"int", "float"}}

InitChain ==
    /\ op = "init"
    /\ raster \in ChainRasters
    /\ castNaN \in NaNCasts
    /\ sample = <<>>
    /\ stat = "none"
    /\ window = NoWindow
    /\ kernel = <<>>
    /\ mode = "none"
    /\ cval = NaN
    /\ out = NoOut
    /\ scheduled = 0
    /\ chunks = <<>>
    /\ pending = {}
    /\ writes = <<>>
    /\ tile = <<>>
    /\ locals = <<>>
    /\ calls = 0
    /\ heap = <<>>

\* the call `name` returned the raster rs, on which the chain goes on
ChainStep(name, rs) ==
    /\ calls < MaxCalls
    /\ calls' = calls + 1
    /\ op' = name
    /\ raster' = rs
    /\ out' = Ok(rs)
    /\ UNCHANGED <<castNaN, sample, scheduled, heap>>
    /\ UNCHANGED tiling

ChainSetNullValue ==
    /\ \E value \in NullValueArgs :
        ChainStep("set_null_value", set_null_value(raster, value, castNaN))
    /\ UNCHANGED <<stat, window, kernel, mode, cval>>

ChainAstype ==
    /\ \E dtype \in {"int", "float"} :
        ChainStep("astype", astype(raster, dtype, castNaN))
    /\ UNCHANGED <<stat, window, kernel, mode, cval>>

ChainRound ==
    /\ ChainStep("round", round(raster, castNaN))
    /\ UNCHANGED <<stat, window, kernel, mode, cval>>

ChainBurnMask ==
    /\ ChainStep("burn_mask", burn_mask(raster, castNaN))
    /\ UNCHANGED <<stat, window, kernel, mode, cval>>

ChainFocal ==
    /\ \E st \in ChainStats, w \in CircleArgs \cup AnnulusArgs :
        /\ stat' = st
        /\ window' = w
        /\ ChainStep("focal",
                     focal(raster, st, w.width_or_radius, w.height, castNaN).val)
    /\ UNCHANGED <<kernel, mode, cval>>

ChainCorrelate ==
    /\ \E k \in ChainKernels, cv \in CVals :
        /\ kernel' = k
        /\ mode' = "constant"
        /\ cval' = cv
        /\ ChainStep("correlate",
                     correlate(raster, k, "constant", cv, castNaN).val)
    /\ UNCHANGED <<stat, window>>

NextChain ==
    \/ ChainSetNullValue \/ ChainAstype \/ ChainRound \/ ChainBurnMask
    \/ ChainFocal \/ ChainCorrelate

SpecChain == InitChain /\ [][NextChain]_vars

\* every cell whose mask is true holds the null value
MaskedCellsHoldNull(rs) ==
    _masked(rs) =>
        \A b \in DOMAIN rs.data : \A r \in DOMAIN rs.data[b] :
            \A c \in DOMAIN rs.data[b][r] :
                rs.mask[b][r][c] => rs.data[b][r][c] = rs.nv[1]

\* C28: in every Raster reachable from a masked Raster by any sequence of
\* set_null_value (non-None value), astype, round, burn_mask, focal and
\* correlate, every cell whose mask is true holds the raster's null value.
C28_MaskedCellsHoldNull ==
    _masked(raster) /\ MaskedCellsHoldNull(raster)


-----------------------------------------------------------------------------
(* SpecCalls: calls made one after another on the same input Raster.  The   *)
(* heap holds the array objects and the Raster objects by identity:         *)
(* heap = [obj, input, result], obj a function from object ids to an array  *)
(* [a, dtype] or to a Raster [data, mask, nv] whose data and mask are ids.  *)
(* The variable raster keeps the input's content as it was constructed.     *)

\* the id the next allocated object gets
NextId(o) ==
    IF DOMAIN o = {} THEN 1
    ELSE (CHOOSE n \in DOMAIN o : \A m \in DOMAIN o : m <= n) + 1

Alloc(o, x) == o @@ (NextId(o) :> x)

ArrayObj(a, dtype) == [a |-> a, dtype |-> dtype]

RasterObj(data, mask, nv) == [data |-> data, mask |-> mask, nv |-> nv]

\* the content of the Raster object r: its data, mask, dtype and null value
Deref(o, r) ==
    [data |-> o[o[r].data].a,
     mask |-> o[o[r].mask].a,
     dtype |-> o[o[r].data].dtype,
     nv |-> o[r].nv]

\* Raster(ds) of a dataset built by the call: a new data array, a new mask
\* array and a new Raster object: [obj, ref]
NewRaster(o, rs) ==
    LET o1 == Alloc(o, ArrayObj(rs.data, rs.dtype))
        o2 == Alloc(o1, ArrayObj(rs.mask, "bool"))
    IN  [obj |-> Alloc(o2, RasterObj(NextId(o), NextId(o1), rs.nv)),
         ref |-> NextId(o2)]

\* a copy that wraps the arrays of the Raster it copies
CopyRasterShallow(o, r) ==
    [obj |-> Alloc(o, RasterObj(o[r].data, o[r].mask, o[r].nv)),
     ref |-> NextId(o)]

\* Raster.copy(), Raster(self): get_raster_ds takes ownership with
\* raster._ds.copy(deep=True), so the copy has arrays of its own
CopyRaster(o, r) == NewRaster(o, Deref(o, r))

\* Op(v), with v evaluated once
Bind(v, Op(_)) == CHOOSE y \in {Op(x) : x \in {v}} : TRUE

\* lines 494-502 of focal: the band loop writes into the array `data` names,
\* the cast back to int makes a new array, and the copy is given the array
FocalStore(o, rs, data, bands, demote, final_dtype, g) ==
    LET \* data[bnd] = ...
        o1 == [o EXCEPT ![data].a = bands]
        \* data = data.astype(final_dtype)
        o2 == IF demote
              THEN Alloc(o1, ArrayObj([b \in DOMAIN bands |->
                                          AsType(bands[b], final_dtype, g)],
                                      final_dtype))
              ELSE o1
    IN  \* rs._rs.data = data
        [obj |-> [o2 EXCEPT ![rs].data = IF demote THEN NextId(o1) ELSE data],
         ref |-> rs]

\* lines 483-502 of focal, rs the copy: `data` is the copy's array, or for a
\* masked raster the new array da.where(~raster._mask, data, np.nan) makes
FocalOnCopy(o, r, rs, focal_type, w, g) ==
    LET win == get_focal_window(w.width_or_radius, w.height)
        input == Deref(o, r)
        final_dtype == o[o[rs].data].dtype
        enc == FocalEncode([input EXCEPT !.data = o[o[rs].data].a,
                                         !.dtype = final_dtype])
    IN  Bind([obj |-> IF _masked(input)
                      THEN Alloc(o, ArrayObj(enc.data, enc.dtype)) ELSE o,
              data |-> IF _masked(input) THEN NextId(o) ELSE o[rs].data,
              bands |-> FocalBands(enc, win.val, focal_type, _masked(input), g),
              demote |-> enc.upcast /\ focal_type \notin FOCAL_PROMOTING_OPS],
             LAMBDA s : FocalStore(s.obj, rs, s.data, s.bands, s.demote,
                                   final_dtype, g))

\* focal on the heap, from rs = raster.copy() on: [obj, ref] when it returns
FocalCall(o, r, focal_type, w, g) ==
    Bind(CopyRaster(o, r),
         LAMBDA cp : FocalOnCopy(cp.obj, r, cp.ref, focal_type, w, g))

\* lines 651-661 of correlate: the band loop writes into the array `data`
\* names until a band's _correlate raises (ref 0), the cast back to int
\* makes a new array, and the copy is given the array
CorrelateStore(o, rs, data, res, enc, g) ==
    LET \* data[bnd] = _correlate(...)
        o1 == [o EXCEPT ![data].a =
                  [b \in DOMAIN res |->
                      IF \A b2 \in 1 .. b : res[b2].err = "none"
                      THEN AsType(res[b].a, enc.dtype, g)
                      ELSE o[data].a[b]]]
        \* data = data.astype(final_dtype)
        o2 == IF enc.upcast
              THEN Alloc(o1, ArrayObj([b \in DOMAIN res |->
                                          AsType(o1[data].a[b],
                                                 enc.final_dtype, g)],
                                      enc.final_dtype))
              ELSE o1
    IN  IF \E b \in DOMAIN res : res[b].err # "none"
        THEN [obj |-> o1, ref |-> 0]
        ELSE \* rs._rs.data = data
             [obj |-> [o2 EXCEPT ![rs].data = IF enc.upcast THEN NextId(o1)
                                              ELSE data],
              ref |-> rs]

\* lines 638-661 of correlate, rs the copy after the cast for a float
\* kernel: `data` is the copy's array, or for a masked raster the new array
\* da.where(raster._mask, np.nan, data) makes
CorrelateOnCopy(o, r, rs, k, m, cv, g) ==
    LET input == Deref(o, r)
        src == [input EXCEPT !.data = o[o[rs].data].a,
                             !.dtype = o[o[rs].data].dtype]
        enc == CorrelateEncode(src, k)
    IN  Bind([obj |-> IF _masked(input)
                      THEN Alloc(o, ArrayObj(enc.data, enc.dtype)) ELSE o,
              data |-> IF _masked(input) THEN NextId(o) ELSE o[rs].data,
              res |-> CorrelateBands(src, k, m, cv, g),
              enc |-> enc],
             LAMBDA s : CorrelateStore(s.obj, rs, s.data, s.res, s.enc, g))

\* lines 636-637 of correlate: for a float kernel the copy of an int raster
\* is given a new float array, rs._rs.data = rs._rs.data.astype(F64)
CastForKernel(o, rs, k, g) ==
    IF k.dtype = "float" /\ Deref(o, rs).dtype = "int"
    THEN [Alloc(o, ArrayObj([b \in DOMAIN Deref(o, rs).data |->
                               AsType(Deref(o, rs).data[b], "float", g)],
                            "float"))
          EXCEPT ![rs].data = NextId(o)]
    ELSE o

\* correlate on the heap, from rs = raster.copy() on: [obj, ref] when it
\* returns, and the heap it leaves with ref 0 when it raises
CorrelateCall(o, r, k, m, cv, g) ==
    Bind(CopyRaster(o, r),
         LAMBDA cp : Bind(CastForKernel(cp.obj, cp.ref, k, g),
                          LAMBDA o1 : CorrelateOnCopy(o1, r, cp.ref, k, m,
                                                      cv, g)))

\* convolve on the heap: correlate with kernel[::-1, ::-1].copy()
ConvolveCall(o, r, k, m, cv, g) ==
    CorrelateCall(o, r, [k EXCEPT !.a = KernelFlip(k.a)], m, cv, g)

\* set_null_value on the heap: the result is the copy burn_mask makes of a
\* Raster built from a copy of the data and a new mask
SetNullValueCall(o, r, value, g) ==
    NewRaster(o, set_null_value(Deref(o, r), value, g))

\* astype on the heap: self.copy() for the dtype the raster has, and
\* otherwise a Raster of the cast array and of self._ds.mask itself
AstypeCall(o, r, dtype, g) ==
    IF dtype = Deref(o, r).dtype THEN CopyRaster(o, r)
    ELSE LET res == astype(Deref(o, r), dtype, g)
             o1 == Alloc(o, ArrayObj(res.data, res.dtype))
         IN  [obj |-> Alloc(o1, RasterObj(NextId(o), o[r].mask, res.nv)),
              ref |-> NextId(o1)]

\* load on the heap: a Raster of the computed dataset
LoadCall(o, r) == NewRaster(o, load(Deref(o, r)))

\* the objects a Raster object holds on to
Reach(o, r) == {r, o[r].data, o[r].mask}

CallRasters == TileRasters

CallStats == {"max", "sum", "mode"}

CallKernels == {RampKernel(1, 2, dt) : dt \in {"int", "float"}}

CallModes == {"constant", "mirror"}

CallNullValues == {None, [ty |-> "int", v |-> Num(1)],
                   [ty |-> "float", v |-> NaN]}

InitCalls ==
    /\ op = "init"
    /\ raster \in CallRasters
    /\ castNaN \in NaNCasts
    /\ sample = <<>>
    /\ stat = "none"
    /\ window = NoWindow
    /\ kernel = <<>>
    /\ mode = "none"
    /\ cval = NaN
    /\ out = NoOut
    /\ scheduled = 0
    /\ chunks = <<>>
    /\ pending = {}
    /\ writes = <<>>
    /\ tile = <<>>
    /\ locals = <<>>
    /\ calls = 0
    /\ heap = [obj |-> NewRaster(<<>>, raster).obj,
               input |-> NewRaster(<<>>, raster).ref,
               result |-> 0]

\* the call `name` on the input ended with the heap res.obj and returned the
\* Raster res.ref, or raised e (res.ref = 0); the caller keeps the input and
\* the last result, everything else is collected
CallEnds(name, res, e) ==
    /\ calls < MaxCalls
    /\ calls' = calls + 1
    /\ op' = name
    /\ heap' = [obj |-> [i \in Reach(res.obj, heap.input)
                              \cup (IF res.ref = 0 THEN {}
                                    ELSE Reach(res.obj, res.ref)) |->
                            res.obj[i]],
                input |-> heap.input,
                result |-> res.ref]
    /\ out' = IF res.ref = 0 THEN Err(e) ELSE Ok(Deref(res.obj, res.ref))
    /\ UNCHANGED <<raster, castNaN, sample, scheduled>>
    /\ UNCHANGED tiling

CallFocal ==
    /\ \E st \in CallStats, w \in CircleArgs :
        /\ stat' = st
        /\ window' = w
        /\ \E res \in {FocalCall(heap.obj, heap.input, st, w, castNaN)} :
            CallEnds("focal", res, "none")
    /\ UNCHANGED <<kernel, mode, cval>>

CallCorrelate ==
    /\ \E k \in CallKernels, m \in CallModes :
        /\ kernel' = k
        /\ mode' = m
        /\ cval' = Num(0)
        /\ \E res \in {CorrelateCall(heap.obj, heap.input, k, m, Num(0),
                                     castNaN)} :
            CallEnds("correlate", res, "ValueError")
    /\ UNCHANGED <<stat, window>>

CallConvolve ==
    /\ \E k \in CallKernels, m \in CallModes :
        /\ kernel' = k
        /\ mode' = m
        /\ cval' = Num(0)
        /\ \E res \in {ConvolveCall(heap.obj, heap.input, k, m, Num(0),
                                    castNaN)} :
            CallEnds("convolve", res, "ValueError")
    /\ UNCHANGED <<stat, window>>

CallSetNullValue ==
    /\ \E value \in CallNullValues :
        \E res \in {SetNullValueCall(heap.obj, heap.input, value, castNaN)} :
            CallEnds("set_null_value", res, "none")
    /\ UNCHANGED <<stat, window, kernel, mode, cval>>

CallAstype ==
    /\ \E dtype \in {"int", "float"} :
        \E res \in {AstypeCall(heap.obj, heap.input, dtype, castNaN)} :
            CallEnds("astype", res, "none")
    /\ UNCHANGED <<stat, window, kernel, mode, cval>>

CallLoad ==
    /\ \E res \in {LoadCall(heap.obj, heap.input)} :
        CallEnds("load", res, "none")
    /\ UNCHANGED <<stat, window, kernel, mode, cval>>

NextCalls ==
    \/ CallFocal \/ CallCorrelate \/ CallConvolve
    \/ CallSetNullValue \/ CallAstype \/ CallLoad

SpecCalls == InitCalls /\ [][NextCalls]_vars

\* C21: focal, correlate, convolve, set_null_value, astype and load each
\* return a new Raster, and after any sequence of such calls on the same
\* input the input Raster's data, mask, dtype and null value are what they
\* were before the first call.
C21_InputUnchanged ==
    /\ Deref(heap.obj, heap.input) = raster
    /\ out.err = "none" =>
        /\ heap.result # heap.input
        /\ heap.obj[heap.result].data # heap.obj[heap.input].data

\* a second call, focal on a raster without null value, whose band loop
\* writes into the array the copy owns, has returned other data than the
\* input's
C21_Witness ==
    /\ op = "focal"
    /\ calls = MaxCalls
    /\ ~_masked(raster)
    /\ out.err = "none"
    /\ out.val.data # raster.data
    /\ Deref(heap.obj, heap.input) = raster

====
